---- MODULE Spec2Model ----
(***************************************************************************)
(* Model of the recipe / error models of scale:                            *)
(*   src/scale/recipe/models.py  (RecipeManager, RecipeJobManager,         *)
(*                                RecipeTypeManager,                       *)
(*                                RecipeTypeRevisionManager)               *)
(*   src/scale/error/models.py   (ErrorManager)                            *)
(*                                                                         *)
(* The store is a transactional relational database (PostgreSQL under the  *)
(* Django ORM): db holds the committed rows, tx[p] the rows process p has  *)
(* written inside its open transaction.  A process sees db overlaid with   *)
(* its own tx[p] (READ COMMITTED); a commit publishes tx[p] at once, a     *)
(* rollback discards it.  Row locks taken by select_for_update() are kept  *)
(* in held[p] until the transaction ends.                                  *)
(***************************************************************************)
EXTENDS Integers, Sequences, FiniteSets, TLC

VARIABLES db, tx, seq, pc, loc, held, want, lockLog, calls, hist

vars == <<db, tx, seq, pc, loc, held, want, lockLog, calls, hist>>

(***************************************************************************)
(* Bounds of the model.                                                    *)
(***************************************************************************)
NumProcs == 2
\* calls made in all, by all processes, in the recipe core (Spec)
MaxCalls == 3
\* calls made in all on the error registry (SpecErr)
MaxErrCalls == 3
\* locking transactions made in all (SpecLock), and the locking statements
\* of one transaction
MaxLockTxns == 2
MaxStmts == 2
\* calls made in all on the RecipeJob table (SpecSave)
MaxSaveCalls == 2
\* archive and create_recipe calls made in all (SpecArch)
MaxArchCalls == 2
\* create_recipe calls and reading transactions made in all (SpecRead)
MaxReadCalls == 2
\* locking transactions made in all (SpecHold)
MaxHoldTxns == 2
\* calls made in all on the error registry (SpecList)
MaxListCalls == 2
\* reads and transactions made in all (SpecReport)
MaxReportCalls == 2
\* edits of a recipe type and create_recipe calls made in all (SpecRev)
MaxRevCalls == 2
\* create_recipe_type and validate_recipe_type calls made in all (SpecValid)
MaxValidCalls == 2
\* processes that create recipes, the lowest-numbered ones (Spec, SpecSave)
MaxCreators == 1
\* transactions of callers of _get_system_error made in all (SpecNest)
MaxNestTxns == 2
\* create_recipe and edit calls made in all (SpecBind)
MaxBindCalls == 2
\* revision creations, with and without the lock, made in all (SpecUnlocked)
MaxUnlockedCalls == 2

Procs == 1..NumProcs

(***************************************************************************)
(* Values.                                                                 *)
(***************************************************************************)
Tables == {"recipe_type", "recipe_type_revision", "recipe", "job", "recipe_job", "error"}

\* Job types known to the (external) job subsystem.
KnownJobTypes == {"jt1", "jt2"}

Node(name, job_type) == [name |-> name, job_type |-> job_type]

\* Recipe definitions (the JSON blob): the input the recipe data must supply
\* and the job nodes in declaration order.
DefA == [input |-> "x", nodes |-> <<Node("A", "jt1")>>]
DefAB == [input |-> "y", nodes |-> <<Node("A", "jt1"), Node("B", "jt2")>>]
DefBad == [input |-> "x", nodes |-> <<Node("A", "jt9")>>]
Definitions == {DefA, DefAB, DefBad}

\* Recipe data: the set of input names the data supplies.
DataValues == {{"x"}, {"y"}}

NoEvent == 0
Events == {1}

TypeKeys == {<<"rt", "1.0">>}

NoRows == [t \in Tables |-> {}]

\* The primary key of a row: RecipeJob.job is the primary key of recipe_job.
Pk(t, row) == IF t = "recipe_job" THEN row.job ELSE row.id

\* Rows of table t with the rows of `written` laid over them by primary key.
Overlay(t, rows, written) ==
    {r \in rows : \A w \in written : Pk(t, w) # Pk(t, r)} \cup written

\* What process p's queries see: the committed rows and its own writes.
Visible(p) == [t \in Tables |-> Overlay(t, db[t], tx[p][t])]

\* range of a sequence
Range(s) == {s[i] : i \in DOMAIN s}

\* All orderings of the elements of a finite set, as sequences.
Perms(S) ==
    {s \in [1..Cardinality(S) -> S] : \A i, j \in DOMAIN s : i # j => s[i] # s[j]}

NoLoc ==
    [op |-> "none", rt |-> {}, definition |-> {}, event |-> NoEvent, data |-> {},
     rev |-> {},
     new_rev_num |-> 0, recipe |-> {}, todo |-> <<>>, jobs |-> <<>>,
     links |-> <<>>, seen |-> {}, name |-> "", found |-> {}, error |-> {},
     log |-> <<>>, stmts |-> 0, arg |-> 0, ret |-> {}, outcome |-> "none",
     fields |-> {}, list |-> <<>>]

(***************************************************************************)
(* Transactions: transaction.atomic                                        *)
(***************************************************************************)
\* (mutant) the exception leaves the writes made so far in the database, as
\* it would without an enclosing atomic block (autocommit).
RollbackKeepsWrites(p) ==
    /\ db' = [t \in Tables |-> Overlay(t, db[t], tx[p][t])]
    /\ tx' = [tx EXCEPT ![p] = NoRows]

\* An exception leaves the atomic block: every write of the transaction is
\* discarded.
Rollback(p) ==
    /\ db' = db
    /\ tx' = [tx EXCEPT ![p] = NoRows]

\* (mutant) the commit leaves in a table only the rows the transaction wrote.
CommitWritesOnly(p) ==
    /\ db' = [t \in Tables |-> IF tx[p][t] # {} THEN tx[p][t] ELSE db[t]]
    /\ tx' = [tx EXCEPT ![p] = NoRows]

\* The atomic block exits normally: every write becomes visible at once.
CommitWrites(p) ==
    /\ db' = [t \in Tables |-> Overlay(t, db[t], tx[p][t])]
    /\ tx' = [tx EXCEPT ![p] = NoRows]

\* The process is between two calls: it has made none yet, or its last call
\* has returned or raised.
Free(p) == pc[p] \in {"idle", "done"}

\* The transaction ends (either way): its row locks are released.
ReleaseLocks(p) ==
    /\ held' = [held EXCEPT ![p] = {}]
    /\ want' = [want EXCEPT ![p] = <<>>]
    /\ lockLog' = [lockLog EXCEPT ![p] = <<>>]

\* The operation raises exc to its caller.
Raise(p, exc) ==
    /\ Rollback(p)
    /\ ReleaseLocks(p)
    /\ pc' = [pc EXCEPT ![p] = "done"]
    /\ loc' = [loc EXCEPT ![p] = [NoLoc EXCEPT !.op = loc[p].op, !.outcome = exc]]

\* (mutant) the save always inserts, as if the table had no primary key.
SaveInsertsAlways(t, rows, row) == rows \cup {row}

\* Model.save() of a row whose primary key is set: the row with that key is
\* updated when there is one, and the row is inserted otherwise.
Save(t, rows, row) ==
    IF \E r \in rows : Pk(t, r) = Pk(t, row)
    THEN {r \in rows : Pk(t, r) # Pk(t, row)} \cup {row}
    ELSE rows \cup {row}

\* (mutant) the row is committed at once, as a save outside any atomic block.
WriteAutocommit(p, t, row) ==
    /\ db' = [db EXCEPT ![t] = Save(t, @, row)]
    /\ tx' = tx

\* A save inside the atomic block: the row is written in p's transaction and
\* no other process sees it before the commit.
Write(p, t, row) ==
    /\ tx' = [tx EXCEPT ![p][t] = Save(t, @, row)]
    /\ db' = db

(***************************************************************************)
(* Row locks: select_for_update()                                          *)
(***************************************************************************)
Row(kind, id) == <<kind, id>>

\* (mutant) select_for_update() does not wait for the row.
LockFreeAlways(p, row) == TRUE

\* No other open transaction holds the row's lock.
LockFree(p, row) == \A q \in Procs \ {p} : row \notin held[q]

\* p's statement locks the next row it selects.
Lock(p) ==
    /\ held' = [held EXCEPT ![p] = @ \cup {Head(want[p])}]
    /\ lockLog' = [lockLog EXCEPT ![p] =
            IF Head(want[p]) \in held[p] THEN @ ELSE Append(@, Head(want[p]))]
    /\ want' = [want EXCEPT ![p] = Tail(@)]

(***************************************************************************)
(* RecipeTypeRevisionManager                                               *)
(***************************************************************************)
\* (mutant) order_by('revision_num'): the first revision is returned.
GetFirstRevision(rows, recipe_type_id) ==
    LET mine == {r \in rows : r.recipe_type = recipe_type_id}
        low == {r \in mine : \A o \in mine : r.revision_num <= o.revision_num}
    IN  IF low = {} THEN {} ELSE {CHOOSE r \in low : TRUE}

\* (mutant) the filter on recipe_type_id is left out.
GetLatestRevisionAnyType(rows, recipe_type_id) ==
    {r \in rows : \A o \in rows : o.revision_num <= r.revision_num /\
                                    (o.revision_num = r.revision_num => o.id <= r.id)}

\* get_latest_revision: filter(recipe_type_id).order_by('-revision_num').first()
\* as the set holding that row, or the empty set for None.
GetLatestRevision(rows, recipe_type_id) ==
    LET mine == {r \in rows : r.recipe_type = recipe_type_id}
        top == {r \in mine : \A o \in mine : o.revision_num <= r.revision_num}
    IN  IF top = {} THEN {} ELSE {CHOOSE r \in top : TRUE}

\* (mutant) a number is skipped.
NewRevNumSkips(last_rev) ==
    IF last_rev = {} THEN 1 ELSE (CHOOSE r \in last_rev : TRUE).revision_num + 2

\* (mutant) the numbering starts at 0.
NewRevNumFromZero(last_rev) ==
    IF last_rev = {} THEN 0 ELSE (CHOOSE r \in last_rev : TRUE).revision_num + 1

\* new_rev_num = 1; if last_rev: new_rev_num = last_rev.revision_num + 1
NewRevNum(last_rev) ==
    IF last_rev = {} THEN 1 ELSE (CHOOSE r \in last_rev : TRUE).revision_num + 1

\* (mutant) no uniqueness is declared on the revisions.
SameRevisionKeyNever(a, b) == FALSE

\* unique_together = ('recipe_type', 'revision_num')
SameRevisionKey(a, b) ==
    a.recipe_type = b.recipe_type /\ a.revision_num = b.revision_num

\* create_recipe_type_revision, first statement: read the latest revision and
\* compute the next number.
RevRead(p) ==
    /\ pc[p] = "rev_read"
    /\ LET rt == CHOOSE r \in loc[p].rt : TRUE
           last_rev == GetLatestRevision(Visible(p).recipe_type_revision, rt.id)
       IN  loc' = [loc EXCEPT ![p].new_rev_num = NewRevNum(last_rev)]
    /\ pc' = [pc EXCEPT ![p] = "rev_insert"]
    /\ UNCHANGED <<db, tx, seq, held, want, lockLog, calls, hist>>

\* (mutant) the latest revision's row is saved again with the new number and
\* definition, instead of a new row.
NewRevReusesLatest(p) ==
    LET rt == CHOOSE r \in loc[p].rt : TRUE
        last_rev == GetLatestRevision(Visible(p).recipe_type_revision, rt.id)
    IN  [id |-> IF last_rev = {} THEN seq.recipe_type_revision
                ELSE (CHOOSE r \in last_rev : TRUE).id,
         recipe_type |-> rt.id, revision_num |-> loc[p].new_rev_num,
         definition |-> rt.definition]

\* new_rev = RecipeTypeRevision(): a new row with the recipe type, the number
\* computed and the recipe type's definition.
NewRev(p) ==
    LET rt == CHOOSE r \in loc[p].rt : TRUE
    IN  [id |-> seq.recipe_type_revision, recipe_type |-> rt.id,
         revision_num |-> loc[p].new_rev_num, definition |-> rt.definition]

\* create_recipe_type_revision, new_rev.save(): the insert waits while an
\* open transaction holds the same (recipe_type, revision_num), fails with
\* IntegrityError when a committed row holds it, and otherwise writes the row
\* (or fails in the store).
RevInsert(p) ==
    /\ pc[p] = "rev_insert"
    /\ LET new_rev == NewRev(p)
       IN  /\ \A q \in Procs \ {p} : \A r \in tx[q].recipe_type_revision :
                  ~SameRevisionKey(r, new_rev)
           /\ seq' = [seq EXCEPT !.recipe_type_revision = @ + 1]
           /\ IF \E r \in db.recipe_type_revision : SameRevisionKey(r, new_rev)
              THEN /\ Raise(p, "IntegrityError")
                   /\ hist' = [hist EXCEPT !.revFail = @ + 1]
              ELSE \E ok \in BOOLEAN :
                     IF ~ok
                     THEN /\ Raise(p, "DatabaseError")
                          /\ hist' = hist
                     ELSE /\ Write(p, "recipe_type_revision", new_rev)
                          /\ pc' = [pc EXCEPT ![p] = "commit"]
                          /\ UNCHANGED <<loc, held, want, lockLog, hist>>
    /\ UNCHANGED calls

(***************************************************************************)
(* RecipeTypeManager                                                       *)
(***************************************************************************)
\* definition.validate_job_interfaces(): every node's job type is known.
ValidJobInterfaces(definition) ==
    \A i \in DOMAIN definition.nodes : definition.nodes[i].job_type \in KnownJobTypes

\* (mutant) no uniqueness is declared on the recipe types.
SameTypeKeyNever(a, b) == FALSE

\* unique_together = ('name', 'version')
SameTypeKey(a, b) == a.name = b.name /\ a.version = b.version

\* (mutant) the definition is saved without validate_job_interfaces().
CreateRecipeTypeUnvalidated(p, key, definition) ==
    /\ Free(p)
    /\ calls > 0
    /\ calls' = calls - 1
    /\ pc' = [pc EXCEPT ![p] = "crt_save"]
    /\ loc' = [loc EXCEPT ![p] =
            [NoLoc EXCEPT !.op = "create_recipe_type", !.definition = {definition},
                          !.rt = {[id |-> 0, name |-> key[1], version |-> key[2],
                                   is_active |-> TRUE, definition |-> definition]}]]
    /\ UNCHANGED <<db, tx, seq, held, want, lockLog, hist>>

\* create_recipe_type: validate the definition; begin the transaction.
CreateRecipeType(p, key, definition) ==
    /\ Free(p)
    /\ calls > 0
    /\ calls' = calls - 1
    /\ IF ~ValidJobInterfaces(definition)
       THEN /\ pc' = [pc EXCEPT ![p] = "done"]
            /\ loc' = [loc EXCEPT ![p] = [NoLoc EXCEPT !.op = "create_recipe_type",
                                                       !.definition = {definition},
                                                       !.outcome = "InvalidDefinition"]]
       ELSE /\ pc' = [pc EXCEPT ![p] = "crt_save"]
            /\ loc' = [loc EXCEPT ![p] =
                    [NoLoc EXCEPT !.op = "create_recipe_type", !.definition = {definition},
                                  !.rt = {[id |-> 0, name |-> key[1], version |-> key[2],
                                           is_active |-> TRUE, definition |-> definition]}]]
    /\ UNCHANGED <<db, tx, seq, held, want, lockLog, hist>>

\* create_recipe_type, recipe_type.save(): insert the row under a new id.
CrtSave(p) ==
    /\ pc[p] = "crt_save"
    /\ LET rt == [(CHOOSE r \in loc[p].rt : TRUE) EXCEPT !.id = seq.recipe_type]
       IN  /\ \A q \in Procs \ {p} : \A r \in tx[q].recipe_type : ~SameTypeKey(r, rt)
           /\ seq' = [seq EXCEPT !.recipe_type = @ + 1]
           /\ IF \E r \in db.recipe_type : SameTypeKey(r, rt)
              THEN Raise(p, "IntegrityError")
              ELSE /\ Write(p, "recipe_type", rt)
                   /\ loc' = [loc EXCEPT ![p].rt = {rt}]
                   /\ pc' = [pc EXCEPT ![p] = "rev_read"]
                   /\ UNCHANGED <<held, want, lockLog>>
    /\ UNCHANGED <<calls, hist>>

\* A caller that changes the definition of a recipe type and so creates a new
\* revision.  "The caller must have obtained a lock using select_for_update()
\* on the given recipe type model": it asks for the RecipeType row's lock.
EditRecipeType(p, recipe_type_id, definition) ==
    /\ Free(p)
    /\ calls > 0
    /\ \E r \in db.recipe_type : r.id = recipe_type_id
    /\ calls' = calls - 1
    /\ want' = [want EXCEPT ![p] = <<Row("RecipeType", recipe_type_id)>>]
    /\ pc' = [pc EXCEPT ![p] = "ed_lock"]
    /\ loc' = [loc EXCEPT ![p] = [NoLoc EXCEPT !.op = "edit", !.definition = {definition}]]
    /\ UNCHANGED <<db, tx, seq, held, lockLog, hist>>

\* (mutant) the caller goes on without the lock.
LockRecipeTypeSkipped(p) ==
    /\ want' = [want EXCEPT ![p] = <<>>]
    /\ UNCHANGED <<held, lockLog>>

\* RecipeType.objects.select_for_update().get(pk=...) blocks until the row's
\* lock is free and takes it.
LockRecipeType(p) ==
    /\ LockFree(p, Head(want[p]))
    /\ Lock(p)

\* The caller, holding the lock, reads the row, sets the new definition and
\* saves it; create_recipe_type_revision follows.
EditLocked(p) ==
    /\ pc[p] = "ed_lock"
    /\ LockRecipeType(p)
    /\ LET cur == CHOOSE r \in db.recipe_type : r.id = Head(want[p])[2]
           rt == [cur EXCEPT !.definition = CHOOSE d \in loc[p].definition : TRUE]
       IN  /\ Write(p, "recipe_type", rt)
           /\ loc' = [loc EXCEPT ![p].rt = {rt}]
    /\ pc' = [pc EXCEPT ![p] = "rev_read"]
    /\ UNCHANGED <<seq, calls, hist>>

\* The atomic block of the operation exits: commit, release the locks.
Commit(p) ==
    /\ pc[p] = "commit"
    /\ CommitWrites(p)
    /\ ReleaseLocks(p)
    /\ pc' = [pc EXCEPT ![p] = "done"]
    /\ loc' = [loc EXCEPT ![p] =
            [NoLoc EXCEPT !.op = loc[p].op, !.outcome = "ok",
                          !.definition = loc[p].definition,
                          !.ret = IF loc[p].op = "create_recipe"
                                  THEN loc[p].recipe ELSE loc[p].rt]]
    /\ hist' = IF loc[p].op \in {"create_recipe_type", "edit"}
               THEN [hist EXCEPT !.revOk = Append(@, (CHOOSE r \in loc[p].rt : TRUE).id)]
               ELSE [hist EXCEPT !.created = @ \cup
                        {[recipe |-> r.id, rev |-> v] : r \in loc[p].recipe, v \in loc[p].rev}]
    /\ UNCHANGED <<seq, calls>>

(***************************************************************************)
(* RecipeManager                                                           *)
(***************************************************************************)
\* recipe_definition.validate_data(recipe_data): the data supplies the input
\* the definition declares.
ValidateData(definition, data) == definition.input \in data

\* Job.objects.create_job(job_type, event); job.save()
NewJob(id, job_type, event) ==
    [id |-> id, job_type |-> job_type, event |-> event, status |-> "PENDING"]

\* (mutant) the event is not checked.
PreconditionFailsEventUnchecked(rt, event) == ~rt.is_active

\* (mutant) is_active is not checked.
PreconditionFailsActiveUnchecked(rt, event) == event = NoEvent

\* if not recipe_type.is_active: raise Exception(...)
\* if event is None: raise Exception(...)
PreconditionFails(rt, event) == ~rt.is_active \/ event = NoEvent

\* create_recipe: the two guards; the atomic block begins.
CreateRecipe(p, rt, event, data) ==
    /\ Free(p)
    /\ calls > 0
    /\ calls' = calls - 1
    /\ LET l == [NoLoc EXCEPT !.op = "create_recipe", !.rt = {rt},
                              !.event = event, !.data = data]
       IN  IF PreconditionFails(rt, event)
           THEN /\ pc' = [pc EXCEPT ![p] = "done"]
                /\ loc' = [loc EXCEPT ![p] = [l EXCEPT !.outcome = "Exception"]]
           ELSE /\ pc' = [pc EXCEPT ![p] = "cr_bind"]
                /\ loc' = [loc EXCEPT ![p] = l]
    /\ UNCHANGED <<db, tx, seq, held, want, lockLog, hist>>

\* recipe.recipe_type_rev = get_latest_revision(recipe_type.id);
\* recipe.get_recipe_definition() reads recipe_type_rev.definition, which
\* raises when there is no revision.
CrBind(p) ==
    /\ pc[p] = "cr_bind"
    /\ LET rt == CHOOSE r \in loc[p].rt : TRUE
           rev == GetLatestRevision(Visible(p).recipe_type_revision, rt.id)
       IN  IF rev = {}
           THEN Raise(p, "AttributeError")
           ELSE /\ loc' = [loc EXCEPT ![p].rev = rev]
                /\ pc' = [pc EXCEPT ![p] = "cr_save"]
                /\ UNCHANGED <<db, tx, held, want, lockLog>>
    /\ UNCHANGED <<seq, calls, hist>>

\* validate the data against the bound revision's definition; recipe.save();
\* get_job_type_map() is a dict, iterated in an order of its own.
CrSave(p) ==
    /\ pc[p] = "cr_save"
    /\ LET rt == CHOOSE r \in loc[p].rt : TRUE
           rev == CHOOSE r \in loc[p].rev : TRUE
           recipe == [id |-> seq.recipe, recipe_type |-> rt.id,
                      recipe_type_rev |-> rev.id, event |-> loc[p].event,
                      data |-> loc[p].data]
       IN  IF ~ValidateData(rev.definition, loc[p].data)
           THEN /\ Raise(p, "InvalidData")
                /\ UNCHANGED seq
           ELSE /\ Write(p, "recipe", recipe)
                /\ seq' = [seq EXCEPT !.recipe = @ + 1]
                /\ \E order \in Perms(Range(rev.definition.nodes)) :
                       loc' = [loc EXCEPT ![p].recipe = {recipe}, ![p].todo = order]
                /\ pc' = [pc EXCEPT ![p] =
                              IF rev.definition.nodes = <<>> THEN "commit" ELSE "cr_jobs"]
                /\ UNCHANGED <<held, want, lockLog>>
    /\ UNCHANGED <<calls, hist>>

\* _create_recipe_jobs, one pass of its loop: create_job for the next node
\* (it may fail) and keep the job under the node's name.  After the last node
\* create_recipe iterates jobs_by_name, a dict again.
CrJob(p) ==
    /\ pc[p] = "cr_jobs"
    /\ \E ok \in BOOLEAN :
         IF ~ok
         THEN /\ Raise(p, "JobError")
              /\ UNCHANGED seq
         ELSE LET node == Head(loc[p].todo)
                  job == NewJob(seq.job, node.job_type, loc[p].event)
                  jobs == Append(loc[p].jobs, <<node.name, job.id>>)
              IN  /\ Write(p, "job", job)
                  /\ seq' = [seq EXCEPT !.job = @ + 1]
                  /\ IF Tail(loc[p].todo) = <<>>
                     THEN /\ \E order \in Perms(Range(jobs)) :
                                 loc' = [loc EXCEPT ![p].todo = <<>>, ![p].jobs = jobs,
                                                    ![p].links = order]
                          /\ pc' = [pc EXCEPT ![p] = "cr_link"]
                     ELSE /\ loc' = [loc EXCEPT ![p].todo = Tail(@), ![p].jobs = jobs]
                          /\ pc' = pc
                  /\ UNCHANGED <<held, want, lockLog>>
    /\ UNCHANGED <<calls, hist>>

\* (mutant) recipe_job.job_name is not set.
RecipeJobRowUnnamed(link, recipe) ==
    [job |-> link[2], job_name |-> "", recipe |-> recipe.id]

\* recipe_job = RecipeJob(); its job, job_name and recipe.
RecipeJobRow(link, recipe) ==
    [job |-> link[2], job_name |-> link[1], recipe |-> recipe.id]

\* create_recipe, one pass of its loop: save the RecipeJob of the next name
\* (the insert may fail in the store).
CrLink(p) ==
    /\ pc[p] = "cr_link"
    /\ \E ok \in BOOLEAN :
         IF ~ok
         THEN Raise(p, "DatabaseError")
         ELSE LET recipe_job == RecipeJobRow(Head(loc[p].links),
                                             CHOOSE r \in loc[p].recipe : TRUE)
              IN  /\ Write(p, "recipe_job", recipe_job)
                  /\ loc' = [loc EXCEPT ![p].links = Tail(@)]
                  /\ pc' = [pc EXCEPT ![p] =
                                IF Tail(loc[p].links) = <<>> THEN "commit" ELSE "cr_link"]
                  /\ UNCHANGED <<held, want, lockLog>>
    /\ UNCHANGED <<seq, calls, hist>>

\* get_details, first query: Recipe.objects...get(pk=recipe_id) returns the
\* recipe row, and raises Recipe.DoesNotExist when no committed row has the
\* id.
GetDetails(p, recipe_id) ==
    /\ Free(p)
    /\ calls > 0
    /\ calls' = calls - 1
    /\ IF \E r \in db.recipe : r.id = recipe_id
       THEN /\ loc' = [loc EXCEPT ![p] =
                    [NoLoc EXCEPT !.op = "get_details",
                                  !.recipe = {r \in db.recipe : r.id = recipe_id}]]
            /\ pc' = [pc EXCEPT ![p] = "gd_jobs"]
       ELSE /\ loc' = [loc EXCEPT ![p] =
                    [NoLoc EXCEPT !.op = "get_details", !.outcome = "DoesNotExist"]]
            /\ pc' = [pc EXCEPT ![p] = "done"]
    /\ UNCHANGED <<db, tx, seq, held, want, lockLog, hist>>

\* (mutant) the second query is made with select_for_update(): it locks the
\* jobs of the recipe.
GdJobsForUpdate(p) ==
    /\ pc[p] = "gd_jobs"
    /\ LET recipe == CHOOSE r \in loc[p].recipe : TRUE
           rows == {Row("Job", rj.job) : rj \in {x \in db.recipe_job : x.recipe = recipe.id}}
       IN  /\ \A row \in rows : LockFree(p, row)
           /\ held' = [held EXCEPT ![p] = @ \cup rows]
           /\ loc' = [loc EXCEPT ![p].seen =
                    {rj \in db.recipe_job : rj.recipe = recipe.id},
                                  ![p].outcome = "ok"]
    /\ pc' = [pc EXCEPT ![p] = "done"]
    /\ UNCHANGED <<db, tx, seq, want, lockLog, calls, hist>>

\* get_details, second query: RecipeJob.objects.filter(recipe_id) with the
\* job of each row joined in.
GdJobs(p) ==
    /\ pc[p] = "gd_jobs"
    /\ LET recipe == CHOOSE r \in loc[p].recipe : TRUE
       IN  loc' = [loc EXCEPT ![p].seen =
                {rj \in db.recipe_job :
                    rj.recipe = recipe.id /\ \E j \in db.job : j.id = rj.job},
                              ![p].outcome = "ok"]
    /\ pc' = [pc EXCEPT ![p] = "done"]
    /\ UNCHANGED <<db, tx, seq, held, want, lockLog, calls, hist>>

(***************************************************************************)
(* The recipe core: recipe types, revisions, recipes and a reader, from an *)
(* empty database.                                                         *)
(***************************************************************************)

\* Ids a sequence has handed out so far.
Issued(t) == 1..(seq[t] - 1)

\* What has happened so far: the recipe types of the revision-creation calls
\* committed, the revision-creation calls that failed on uniqueness, the
\* fallback error created, and each recipe committed with the revision it was
\* created with.
NoHist == [revOk |-> <<>>, revFail |-> 0, fallback |-> {}, created |-> {}]

Init ==
    /\ db = NoRows
    /\ tx = [p \in Procs |-> NoRows]
    /\ seq = [t \in Tables |-> 1]
    /\ pc = [p \in Procs |-> "idle"]
    /\ loc = [p \in Procs |-> NoLoc]
    /\ held = [p \in Procs |-> {}]
    /\ want = [p \in Procs |-> <<>>]
    /\ lockLog = [p \in Procs |-> <<>>]
    /\ calls = MaxCalls
    /\ hist = NoHist

Next ==
    \E p \in Procs :
        \/ \E key \in TypeKeys, d \in Definitions : CreateRecipeType(p, key, d)
        \/ CrtSave(p)
        \/ \E t \in Issued("recipe_type"), d \in Definitions \ {DefBad} :
               EditRecipeType(p, t, d)
        \/ EditLocked(p)
        \/ RevRead(p)
        \/ RevInsert(p)
        \/ /\ p <= MaxCreators
           /\ \E rt \in db.recipe_type, e \in Events \cup {NoEvent}, data \in DataValues :
                  CreateRecipe(p, rt, e, data)
        \/ CrBind(p)
        \/ CrSave(p)
        \/ CrJob(p)
        \/ CrLink(p)
        \/ \E r \in Issued("recipe") : GetDetails(p, r)
        \/ GdJobs(p)
        \/ Commit(p)

Spec == Init /\ [][Next]_vars

(***************************************************************************)
(* ErrorManager                                                            *)
(***************************************************************************)
\* The names of the built-in system errors: get_database_error,
\* get_filesystem_error, get_nfs_error, get_unknown_error.
SystemErrorNames == {"database", "filesystem-io", "nfs", "unknown"}

\* The names create_error is called with.
CreatedNames == {"setup", "database"}

\* Error.CATEGORIES
Categories == {"SYSTEM", "ALGORITHM", "DATA"}

\* The categories create_error is called with: two of Error.CATEGORIES and
\* one that is none of them.
CategoryInputs == {"SYSTEM", "DATA", "BOGUS"}

\* A row of the fixture of built-in errors; last_modified is a logical time.
NewErrorRow(id, name) ==
    [id |-> id, name |-> name, title |-> name, description |-> name,
     category |-> "SYSTEM", last_modified |-> id]

\* error = Error() and its four fields; the id and last_modified are set by
\* save().
NewError(name, title, description, category) ==
    [id |-> 0, name |-> name, title |-> title, description |-> description,
     category |-> category, last_modified |-> 0]

\* (mutant) the name is not unique in the table.
NameTakenNever(rows, name) == FALSE

\* name = models.CharField(unique=True): a row of the table has the name.
NameTaken(rows, name) == \E e \in rows : e.name = name

\* create_error: the fields are set on a new Error (plain attribute
\* assignments, which do not raise); the atomic block begins.
CreateError(p, name, title, description, category) ==
    /\ Free(p)
    /\ calls > 0
    /\ calls' = calls - 1
    /\ loc' = [loc EXCEPT ![p] =
            [NoLoc EXCEPT !.op = "create_error", !.name = name,
                          !.fields = {<<name, title, description, category>>},
                          !.error = {NewError(name, title, description, category)}]]
    /\ pc' = [pc EXCEPT ![p] = "ce_save"]
    /\ UNCHANGED <<db, tx, seq, held, want, lockLog, hist>>

\* _get_system_error: Error.objects.get(name=name) returns the row; on
\* DoesNotExist the miss is logged and create_error('setup', ...) is called.
GetSystemError(p, name) ==
    /\ Free(p)
    /\ calls > 0
    /\ calls' = calls - 1
    /\ LET found == {e \in db.error : e.name = name}
           l == [NoLoc EXCEPT !.op = "get_system_error", !.name = name, !.found = found]
       IN  IF found # {}
           THEN /\ loc' = [loc EXCEPT ![p] = [l EXCEPT !.ret = found, !.outcome = "ok"]]
                /\ pc' = [pc EXCEPT ![p] = "done"]
           ELSE /\ loc' = [loc EXCEPT ![p] =
                        [l EXCEPT !.log = <<"missing expected error">>,
                                  !.error = {NewError("setup", "Database Setup",
                                                      "Initial database import missing.",
                                                      "SYSTEM")}]]
                /\ pc' = [pc EXCEPT ![p] = "ce_save"]
    /\ UNCHANGED <<db, tx, seq, held, want, lockLog, hist>>

\* (mutant) the failure of create_error is not caught.
DefaultErrorFailedRaises(p, exc) == Raise(p, exc)

\* _get_system_error, the inner "except:": whatever create_error raised is
\* logged and the call returns None.
DefaultErrorFailed(p, exc) ==
    /\ Rollback(p)
    /\ ReleaseLocks(p)
    /\ pc' = [pc EXCEPT ![p] = "done"]
    /\ loc' = [loc EXCEPT ![p] =
            [NoLoc EXCEPT !.op = loc[p].op, !.name = loc[p].name, !.found = loc[p].found,
                          !.log = Append(loc[p].log, "Unable to create default error."),
                          !.ret = {}, !.outcome = "ok"]]

\* create_error, error.save(): the insert waits while an open transaction
\* holds the same unique name, fails with IntegrityError when a committed row
\* holds it, and otherwise writes the row under a new id; last_modified
\* (auto_now) is the time of the save, a logical clock that ticks with every
\* save of an Error.
CeSave(p) ==
    /\ pc[p] = "ce_save"
    /\ LET error == [(CHOOSE e \in loc[p].error : TRUE) EXCEPT
                         !.id = seq.error, !.last_modified = seq.error]
       IN  /\ \A q \in Procs \ {p} : ~NameTaken(tx[q].error, error.name)
           /\ seq' = [seq EXCEPT !.error = @ + 1]
           /\ IF NameTaken(db.error, error.name)
              THEN IF loc[p].op = "get_system_error"
                   THEN DefaultErrorFailed(p, "IntegrityError")
                   ELSE Raise(p, "IntegrityError")
              ELSE /\ Write(p, "error", error)
                   /\ loc' = [loc EXCEPT ![p].error = {error}]
                   /\ pc' = [pc EXCEPT ![p] = "ce_commit"]
                   /\ UNCHANGED <<held, want, lockLog>>
    /\ UNCHANGED <<calls, hist>>

\* create_error's atomic block exits and the new error is returned (by
\* _get_system_error too, which returns what create_error returned).
CeCommit(p) ==
    /\ pc[p] = "ce_commit"
    /\ CommitWrites(p)
    /\ pc' = [pc EXCEPT ![p] = "done"]
    /\ loc' = [loc EXCEPT ![p] =
            [NoLoc EXCEPT !.op = loc[p].op, !.name = loc[p].name, !.found = loc[p].found,
                          !.log = loc[p].log, !.ret = loc[p].error, !.outcome = "ok"]]
    /\ hist' = IF loc[p].op = "get_system_error"
               THEN [hist EXCEPT !.fallback = @ \cup loc[p].error]
               ELSE hist
    /\ UNCHANGED <<seq, held, want, lockLog, calls>>

(***************************************************************************)
(* The error registry, from a database whose fixture of built-in errors    *)
(* was loaded, was loaded without "database", or was not loaded.           *)
(***************************************************************************)
\* The rows the fixture gives the names in S, with ids from 1.
Fixture(names) ==
    {NewErrorRow(i, names[i]) : i \in DOMAIN names}

Fixtures ==
    {<<>>, <<"filesystem-io", "nfs", "unknown">>,
     <<"database", "filesystem-io", "nfs", "unknown">>}

InitErr ==
    /\ \E names \in Fixtures :
           /\ db = [NoRows EXCEPT !.error = Fixture(names)]
           /\ seq = [[t \in Tables |-> 1] EXCEPT !.error = Len(names) + 1]
    /\ tx = [p \in Procs |-> NoRows]
    /\ pc = [p \in Procs |-> "idle"]
    /\ loc = [p \in Procs |-> NoLoc]
    /\ held = [p \in Procs |-> {}]
    /\ want = [p \in Procs |-> <<>>]
    /\ lockLog = [p \in Procs |-> <<>>]
    /\ calls = MaxErrCalls
    /\ hist = NoHist

NextErr ==
    \E p \in Procs :
        \/ \E name \in SystemErrorNames : GetSystemError(p, name)
        \/ \E name \in CreatedNames, category \in CategoryInputs :
               CreateError(p, name, "title", "text", category)
        \/ CeSave(p)
        \/ CeCommit(p)

SpecErr == InitErr /\ [][NextErr]_vars

(***************************************************************************)
(* Listing the error registry: get_errors, get_by_natural_key              *)
(***************************************************************************)
\* started=None, ended=None: no bound.
NoTime == 0

\* (mutant) the bounds are exclusive.
InRangeExclusive(t, started, ended) ==
    /\ started # NoTime => t > started
    /\ ended # NoTime => t < ended

\* filter(last_modified__gte=started), filter(last_modified__lte=ended), each
\* applied when the bound is given.
InRange(t, started, ended) ==
    /\ started # NoTime => t >= started
    /\ ended # NoTime => t <= ended

\* The strings of the registry in the order of the store's collation.
Collation ==
    <<"ALGORITHM", "BOGUS", "DATA", "SYSTEM",
      "database", "filesystem-io", "nfs", "setup", "unknown">>

\* order_by(*order): a field name, with "-" before it for descending order.
Descending(f) == f \in {"-id", "-name", "-category", "-last_modified"}

FieldOf(f) ==
    CASE f \in {"id", "-id"} -> "id"
      [] f \in {"name", "-name"} -> "name"
      [] f \in {"category", "-category"} -> "category"
      [] f \in {"last_modified", "-last_modified"} -> "last_modified"

\* The place of row e's value of a field among the values of that field.
SortKey(e, field) ==
    CASE field = "id" -> e.id
      [] field = "last_modified" -> e.last_modified
      [] field = "name" -> CHOOSE i \in DOMAIN Collation : Collation[i] = e.name
      [] field = "category" -> CHOOSE i \in DOMAIN Collation : Collation[i] = e.category

\* Row a comes before row b in every listing ordered by the fields of order.
RECURSIVE Before(_, _, _)
Before(a, b, order) ==
    IF order = <<>> THEN FALSE
    ELSE LET ka == SortKey(a, FieldOf(Head(order)))
             kb == SortKey(b, FieldOf(Head(order)))
         IN  IF ka = kb THEN Before(a, b, Tail(order))
             ELSE IF Descending(Head(order)) THEN ka > kb ELSE ka < kb

\* The listings get_errors can return: the rows in the time range, ordered
\* by the given fields or by last_modified; rows the order does not tell
\* apart come in an order of the store's.
GetErrorsResults(rows, started, ended, order) ==
    LET selected == {e \in rows : InRange(e.last_modified, started, ended)}
        by == IF order # <<>> THEN order ELSE <<"last_modified">>
    IN  {s \in Perms(selected) :
            \A i, j \in DOMAIN s : i < j => ~Before(s[j], s[i], by)}

\* get_errors(started, ended, order), evaluated: one query on the rows of the
\* table as they are then.
GetErrors(p, started, ended, order) ==
    /\ Free(p)
    /\ calls > 0
    /\ calls' = calls - 1
    /\ \E result \in GetErrorsResults(db.error, started, ended, order) :
           loc' = [loc EXCEPT ![p] =
               [NoLoc EXCEPT !.op = "get_errors", !.outcome = "ok",
                             !.fields = {<<started, ended, order>>},
                             !.seen = db.error, !.list = result]]
    /\ pc' = [pc EXCEPT ![p] = "done"]
    /\ UNCHANGED <<db, tx, seq, held, want, lockLog, hist>>

\* get_by_natural_key(name): self.get(name=name), which raises DoesNotExist
\* when no row has the name.
GetByNaturalKey(p, name) ==
    /\ Free(p)
    /\ calls > 0
    /\ calls' = calls - 1
    /\ LET found == {e \in db.error : e.name = name}
       IN  loc' = [loc EXCEPT ![p] =
               [NoLoc EXCEPT !.op = "get_by_natural_key", !.name = name,
                             !.found = found, !.ret = found,
                             !.outcome = IF found = {} THEN "DoesNotExist" ELSE "ok"]]
    /\ pc' = [pc EXCEPT ![p] = "done"]
    /\ UNCHANGED <<db, tx, seq, held, want, lockLog, hist>>

\* The times get_errors is called with, and the orders.
TimeInputs == {NoTime, 2}

OrderInputs == {<<>>, <<"-last_modified">>, <<"category", "name">>}

\* The registries the listing starts from: the fixture without "database",
\* its rows last modified at times before, at and after the bound the
\* listings are asked with, or two of them at the same time.
ListFixtures ==
    {{[e EXCEPT !.last_modified = at[e.id]] :
         e \in Fixture(<<"filesystem-io", "nfs", "unknown">>)} :
       at \in {<<3, 1, 2>>, <<1, 3, 1>>}}

InitList ==
    /\ \E rows \in ListFixtures : db = [NoRows EXCEPT !.error = rows]
    /\ seq = [[t \in Tables |-> 1] EXCEPT !.error = 4]
    /\ tx = [p \in Procs |-> NoRows]
    /\ pc = [p \in Procs |-> "idle"]
    /\ loc = [p \in Procs |-> NoLoc]
    /\ held = [p \in Procs |-> {}]
    /\ want = [p \in Procs |-> <<>>]
    /\ lockLog = [p \in Procs |-> <<>>]
    /\ calls = MaxListCalls
    /\ hist = NoHist

\* Process 1 lists the registry; every process looks errors up and creates
\* errors.
NextList ==
    \E p \in Procs :
        \/ /\ p = 1
           /\ \E started \in TimeInputs, ended \in TimeInputs, order \in OrderInputs :
                  GetErrors(p, started, ended, order)
        \/ \E name \in {"nfs", "setup"} : GetByNaturalKey(p, name)
        \/ \E name \in {"database", "nfs"} : GetSystemError(p, name)
        \/ \E category \in {"DATA", "BOGUS"} :
               CreateError(p, "database", "title", "text", category)
        \/ CeSave(p)
        \/ CeCommit(p)

SpecList == InitList /\ [][NextList]_vars

(***************************************************************************)
(* Locking transactions: get_locked_recipe_for_job, get_recipe_jobs        *)
(***************************************************************************)
\* "when acquiring select_for_update() locks on related models, be sure to
\* acquire them in the following order: JobExecution, Recipe, Job,
\* RecipeType, JobType, TriggerRule"
LockOrder == <<"JobExecution", "Recipe", "Job", "RecipeType", "JobType", "TriggerRule">>

LockRank(kind) == CHOOSE i \in DOMAIN LockOrder : LockOrder[i] = kind

\* A caller (a scheduler) opens a transaction in which it locks rows.
BeginTxn(p) ==
    /\ Free(p)
    /\ calls > 0
    /\ calls' = calls - 1
    /\ pc' = [pc EXCEPT ![p] = "txn"]
    /\ loc' = [loc EXCEPT ![p] = [NoLoc EXCEPT !.op = "transaction"]]
    /\ UNCHANGED <<db, tx, seq, held, want, lockLog, hist>>

\* The rows "SELECT ... FOR UPDATE" locks for a recipe selected with
\* select_related('recipe_type', 'recipe_type_rev'): a locking clause without
\* a table list locks the rows of every table of the join, so the recipe's
\* RecipeType row is locked after the Recipe row.  (The joined
\* recipe_type_revision row is locked too; it is of no kind of LockOrder and
\* is left out.)
LockedRecipeRows(recipe) ==
    <<Row("Recipe", recipe.id), Row("RecipeType", recipe.recipe_type)>>

\* get_locked_recipe_for_job: RecipeJob.objects.get(job_id=job_id); on
\* DoesNotExist the result is None and nothing is locked; otherwise the recipe
\* is selected for update.
GetLockedRecipeForJob(p, job_id) ==
    /\ pc[p] = "txn"
    /\ loc[p].stmts < MaxStmts
    /\ LET recipe_job == {rj \in Visible(p).recipe_job : rj.job = job_id}
           recipe == {r \in Visible(p).recipe : \E rj \in recipe_job : r.id = rj.recipe}
       IN  IF recipe_job = {}
           THEN /\ loc' = [loc EXCEPT ![p].stmts = @ + 1, ![p].ret = {},
                                      ![p].arg = job_id,
                                      ![p].name = "get_locked_recipe_for_job"]
                /\ UNCHANGED <<pc, want>>
           ELSE /\ want' = [want EXCEPT ![p] = LockedRecipeRows(CHOOSE r \in recipe : TRUE)]
                /\ loc' = [loc EXCEPT ![p].stmts = @ + 1, ![p].ret = recipe,
                                      ![p].arg = job_id,
                                      ![p].name = "get_locked_recipe_for_job"]
                /\ pc' = [pc EXCEPT ![p] = "locking"]
    /\ UNCHANGED <<db, tx, seq, held, lockLog, calls, hist>>

\* (mutant) only the first job the query yields is locked.
LockedJobRowsFirstOnly(jobs, jobs_related) == <<Row("Job", jobs[1].id)>>

\* The rows the job query of get_recipe_jobs locks, job by job in the order
\* the query yields them: the Job row and, with jobs_related (a join on
\* job_type), its JobType row.
LockedJobRows(jobs, jobs_related) ==
    [i \in 1..(IF jobs_related THEN 2 * Len(jobs) ELSE Len(jobs)) |->
        IF ~jobs_related THEN Row("Job", jobs[i].id)
        ELSE IF i % 2 = 1 THEN Row("Job", jobs[(i + 1) \div 2].id)
        ELSE Row("JobType", jobs[i \div 2].job_type)]

\* (mutant) the job models of the first query are kept.
RepopulateKeepsFirstRead(jobs, job) == jobs

\* recipe_job.job = jobs[recipe_job.job_id]: the job model the RecipeJob
\* query joined is replaced by the one the Job query read.
Repopulate(jobs, job) == {j \in jobs : j.id # job.id} \cup {job}

\* get_recipe_jobs: the RecipeJob rows of the recipe, each with the job the
\* query joins (select_related('job')); with jobs_lock the Job query is made
\* with select_for_update(), and filter(id__in=job_ids) has no order_by: the
\* rows come, and are locked, in an order of the store's.  With jobs_related
\* alone the Job query is a second statement that takes no lock.  Neither is
\* made when both flags are false; with no job id the Job query selects
\* nothing.
GetRecipeJobs(p, recipe_id, jobs_related, jobs_lock) ==
    /\ pc[p] = "txn"
    /\ loc[p].stmts < MaxStmts
    /\ LET recipe_jobs == {rj \in Visible(p).recipe_job : rj.recipe = recipe_id}
           jobs == {j \in Visible(p).job : \E rj \in recipe_jobs : rj.job = j.id}
       IN  /\ loc' = [loc EXCEPT ![p].stmts = @ + 1, ![p].seen = recipe_jobs,
                                 ![p].arg = recipe_id,
                                 ![p].name = "get_recipe_jobs",
                                 ![p].fields = {<<jobs_related, jobs_lock>>},
                                 ![p].found = jobs,
                                 ![p].ret = jobs]
           /\ IF jobs_lock /\ jobs # {}
              THEN /\ \E order \in Perms(jobs) :
                          want' = [want EXCEPT ![p] = LockedJobRows(order, jobs_related)]
                   /\ pc' = [pc EXCEPT ![p] = "locking"]
              ELSE IF jobs_related /\ jobs # {}
              THEN /\ pc' = [pc EXCEPT ![p] = "rj_jobs"]
                   /\ want' = want
              ELSE UNCHANGED <<pc, want>>
    /\ UNCHANGED <<db, tx, seq, held, lockLog, calls, hist>>

\* get_recipe_jobs with jobs_related and without jobs_lock, the Job query:
\* Job.objects...filter(id__in=job_ids) reads the jobs of the RecipeJob rows
\* as they are committed now, and each recipe_job gets the job read.
RjJobQuery(p) ==
    /\ pc[p] = "rj_jobs"
    /\ loc' = [loc EXCEPT ![p].ret =
            {j \in Visible(p).job : \E rj \in loc[p].seen : rj.job = j.id}]
    /\ pc' = [pc EXCEPT ![p] = "txn"]
    /\ UNCHANGED <<db, tx, seq, held, want, lockLog, calls, hist>>

\* The statement locks its next row, waiting while another transaction holds
\* it, and reads the row as it is committed then; after its last row the
\* statement returns.  get_recipe_jobs puts each Job row read so on its
\* recipe_job.
LockNext(p) ==
    /\ pc[p] = "locking"
    /\ LockFree(p, Head(want[p]))
    /\ Lock(p)
    /\ pc' = [pc EXCEPT ![p] = IF Tail(want[p]) = <<>> THEN "txn" ELSE "locking"]
    /\ loc' = [loc EXCEPT ![p].ret =
            IF loc[p].name = "get_recipe_jobs" /\ Head(want[p])[1] = "Job"
            THEN Repopulate(@, CHOOSE j \in Visible(p).job : j.id = Head(want[p])[2])
            ELSE @]
    /\ UNCHANGED <<db, tx, seq, calls, hist>>

\* The caller's transaction commits: its locks are released.
EndTxn(p) ==
    /\ pc[p] = "txn"
    /\ CommitWrites(p)
    /\ ReleaseLocks(p)
    /\ pc' = [pc EXCEPT ![p] = "done"]
    /\ loc' = [loc EXCEPT ![p] = [NoLoc EXCEPT !.op = loc[p].op, !.outcome = "ok"]]
    /\ UNCHANGED <<seq, calls, hist>>

\* A database the recipe core reaches: one recipe type with the two-node
\* definition, its revision 1, two recipes with their jobs, and a job that
\* belongs to no recipe.
PopulatedDb ==
    [recipe_type |-> {[id |-> 1, name |-> "rt", version |-> "1.0", is_active |-> TRUE,
                       definition |-> DefAB]},
     recipe_type_revision |-> {[id |-> 1, recipe_type |-> 1, revision_num |-> 1,
                                definition |-> DefAB]},
     recipe |-> {[id |-> r, recipe_type |-> 1, recipe_type_rev |-> 1, event |-> 1,
                  data |-> {"y"}] : r \in {1, 2}},
     job |-> {NewJob(1, "jt1", 1), NewJob(2, "jt2", 1), NewJob(3, "jt1", 1),
              NewJob(4, "jt2", 1), NewJob(5, "jt1", 1)},
     recipe_job |-> {[job |-> 1, job_name |-> "A", recipe |-> 1],
                     [job |-> 2, job_name |-> "B", recipe |-> 1],
                     [job |-> 3, job_name |-> "A", recipe |-> 2],
                     [job |-> 4, job_name |-> "B", recipe |-> 2]},
     error |-> {}]

PopulatedSeq ==
    [recipe_type |-> 2, recipe_type_revision |-> 2, recipe |-> 3, job |-> 6,
     recipe_job |-> 1, error |-> 1]

InitPopulated(budget) ==
    /\ db = PopulatedDb
    /\ seq = PopulatedSeq
    /\ tx = [p \in Procs |-> NoRows]
    /\ pc = [p \in Procs |-> "idle"]
    /\ loc = [p \in Procs |-> NoLoc]
    /\ held = [p \in Procs |-> {}]
    /\ want = [p \in Procs |-> <<>>]
    /\ lockLog = [p \in Procs |-> <<>>]
    /\ calls = budget
    /\ hist = NoHist

InitLock == InitPopulated(MaxLockTxns)

NextLock ==
    \E p \in Procs :
        \/ BeginTxn(p)
        \/ \E j \in Issued("job") : GetLockedRecipeForJob(p, j)
        \/ \E r \in Issued("recipe"), jobs_related \in BOOLEAN, jobs_lock \in BOOLEAN :
               GetRecipeJobs(p, r, jobs_related, jobs_lock)
        \/ LockNext(p)
        \/ RjJobQuery(p)
        \/ EndTxn(p)

SpecLock == InitLock /\ [][NextLock]_vars

(***************************************************************************)
(* RecipeJob rows saved directly: RecipeJob(job, job_name, recipe).save()  *)
(***************************************************************************)
\* Model.save() of a RecipeJob outside any atomic block.  The primary key
\* (job) is set, so save() first runs UPDATE ... WHERE job_id = pk: a row with
\* that key takes the new job_name and recipe.  When no row was updated the
\* INSERT follows as a statement of its own.  The job and the recipe exist
\* (the foreign keys hold).
SaveRecipeJob(p, job_id, job_name, recipe_id) ==
    /\ Free(p)
    /\ calls > 0
    /\ \E j \in db.job : j.id = job_id
    /\ \E r \in db.recipe : r.id = recipe_id
    /\ calls' = calls - 1
    /\ LET recipe_job == [job |-> job_id, job_name |-> job_name, recipe |-> recipe_id]
           updated == {rj \in db.recipe_job : rj.job = job_id}
       IN  IF updated # {}
           THEN /\ db' = [db EXCEPT !.recipe_job = Save("recipe_job", @, recipe_job)]
                /\ pc' = [pc EXCEPT ![p] = "done"]
                /\ loc' = [loc EXCEPT ![p] =
                        [NoLoc EXCEPT !.op = "save_recipe_job", !.found = updated,
                                      !.ret = {recipe_job}, !.outcome = "ok"]]
           ELSE /\ db' = db
                /\ pc' = [pc EXCEPT ![p] = "rj_insert"]
                /\ loc' = [loc EXCEPT ![p] =
                        [NoLoc EXCEPT !.op = "save_recipe_job", !.ret = {recipe_job}]]
    /\ UNCHANGED <<tx, seq, held, want, lockLog, hist>>

\* The INSERT of save(): a row with the same primary key, committed since the
\* UPDATE found none, makes it fail with IntegrityError.
RjInsert(p) ==
    /\ pc[p] = "rj_insert"
    /\ LET recipe_job == CHOOSE rj \in loc[p].ret : TRUE
       IN  IF \E rj \in db.recipe_job : rj.job = recipe_job.job
           THEN /\ db' = db
                /\ loc' = [loc EXCEPT ![p].outcome = "IntegrityError", ![p].ret = {}]
           ELSE /\ db' = [db EXCEPT !.recipe_job = Save("recipe_job", @, recipe_job)]
                /\ loc' = [loc EXCEPT ![p].outcome = "ok"]
    /\ pc' = [pc EXCEPT ![p] = "done"]
    /\ UNCHANGED <<tx, seq, held, want, lockLog, calls, hist>>

InitSave == InitPopulated(MaxSaveCalls)

NextSave ==
    \E p \in Procs :
        \/ p <= MaxCreators /\ \E rt \in db.recipe_type : CreateRecipe(p, rt, 1, {"y"})
        \/ CrBind(p)
        \/ CrSave(p)
        \/ CrJob(p)
        \/ CrLink(p)
        \/ Commit(p)
        \/ \E j \in Issued("job"), r \in Issued("recipe") : SaveRecipeJob(p, j, "B", r)
        \/ RjInsert(p)

SpecSave == InitSave /\ [][NextSave]_vars

(***************************************************************************)
(* Archived recipe types: a caller loads a RecipeType, a recipe type is    *)
(* archived, create_recipe is called with the object loaded.               *)
(***************************************************************************)
\* RecipeType.objects.get(pk=recipe_type_id): the caller keeps the model
\* object, a copy of the row as it is now.
GetRecipeType(p, recipe_type_id) ==
    /\ Free(p)
    /\ \E t \in db.recipe_type : t.id = recipe_type_id
    /\ pc' = [pc EXCEPT ![p] = "done"]
    /\ loc' = [loc EXCEPT ![p] =
            [NoLoc EXCEPT !.op = "get_recipe_type", !.outcome = "ok",
                          !.ret = {t \in db.recipe_type : t.id = recipe_type_id}]]
    /\ UNCHANGED <<db, tx, seq, held, want, lockLog, calls, hist>>

\* The recipe type is archived: its stored is_active becomes false ("false
\* once recipe type is archived").
ArchiveRecipeType(p, recipe_type_id) ==
    /\ Free(p)
    /\ calls > 0
    /\ \E t \in db.recipe_type : t.id = recipe_type_id /\ t.is_active
    /\ calls' = calls - 1
    /\ db' = [db EXCEPT !.recipe_type =
                {IF t.id = recipe_type_id THEN [t EXCEPT !.is_active = FALSE] ELSE t :
                     t \in @}]
    /\ pc' = [pc EXCEPT ![p] = "done"]
    /\ loc' = [loc EXCEPT ![p] = [NoLoc EXCEPT !.op = "archive", !.outcome = "ok"]]
    /\ UNCHANGED <<tx, seq, held, want, lockLog, hist>>

\* The recipe type objects the caller holds: what its last query returned.
LoadedRecipeTypes(p) == IF loc[p].op = "get_recipe_type" THEN loc[p].ret ELSE {}

\* A database the recipe core reaches: one active recipe type with the given
\* definition and its revision 1, and no recipe yet.
InitWithType(definition, budget) ==
    /\ db = [NoRows EXCEPT
                !.recipe_type = {[id |-> 1, name |-> "rt", version |-> "1.0",
                                  is_active |-> TRUE, definition |-> definition]},
                !.recipe_type_revision = {[id |-> 1, recipe_type |-> 1, revision_num |-> 1,
                                           definition |-> definition]}]
    /\ seq = [t \in Tables |-> IF t \in {"recipe_type", "recipe_type_revision"} THEN 2 ELSE 1]
    /\ tx = [p \in Procs |-> NoRows]
    /\ pc = [p \in Procs |-> "idle"]
    /\ loc = [p \in Procs |-> NoLoc]
    /\ held = [p \in Procs |-> {}]
    /\ want = [p \in Procs |-> <<>>]
    /\ lockLog = [p \in Procs |-> <<>>]
    /\ calls = budget
    /\ hist = NoHist

InitArch == InitWithType(DefA, MaxArchCalls)

NextArch ==
    \E p \in Procs :
        \/ \E t \in Issued("recipe_type") : GetRecipeType(p, t)
        \/ \E t \in Issued("recipe_type") : ArchiveRecipeType(p, t)
        \/ \E rt \in LoadedRecipeTypes(p), e \in Events \cup {NoEvent} :
               CreateRecipe(p, rt, e, {"x"})
        \/ CrBind(p)
        \/ CrSave(p)
        \/ CrJob(p)
        \/ CrLink(p)
        \/ Commit(p)

SpecArch == InitArch /\ [][NextArch]_vars

(***************************************************************************)
(* A recipe created and then read: create_recipe, get_recipe_jobs and      *)
(* get_locked_recipe_for_job.                                              *)
(***************************************************************************)
InitRead == InitWithType(DefAB, MaxReadCalls)

\* Process 1 creates recipes; every process reads in transactions.
NextRead ==
    \E p \in Procs :
        \/ p = 1 /\ \E rt \in db.recipe_type : CreateRecipe(p, rt, 1, {"y"})
        \/ CrBind(p)
        \/ CrSave(p)
        \/ CrJob(p)
        \/ CrLink(p)
        \/ Commit(p)
        \/ BeginTxn(p)
        \/ \E j \in Issued("job") : GetLockedRecipeForJob(p, j)
        \/ \E r \in Issued("recipe"), jobs_related \in BOOLEAN, jobs_lock \in BOOLEAN :
               GetRecipeJobs(p, r, jobs_related, jobs_lock)
        \/ LockNext(p)
        \/ RjJobQuery(p)
        \/ EndTxn(p)

SpecRead == InitRead /\ [][NextRead]_vars

(***************************************************************************)
(* Schedulers: transactions that lock a job's recipe or the jobs of a      *)
(* recipe and then transition jobs.                                        *)
(***************************************************************************)
\* The job subsystem transitions a job inside the caller's transaction: the
\* UPDATE waits for the row's lock, keeps it until the transaction ends and
\* sets the job's status.
TransitionJob(p, job_id) ==
    /\ pc[p] = "txn"
    /\ loc[p].stmts < MaxStmts
    /\ \E j \in Visible(p).job : j.id = job_id
    /\ LockFree(p, Row("Job", job_id))
    /\ LET job == CHOOSE j \in Visible(p).job : j.id = job_id
       IN  Write(p, "job", [job EXCEPT !.status = "RUNNING"])
    /\ held' = [held EXCEPT ![p] = @ \cup {Row("Job", job_id)}]
    /\ lockLog' = [lockLog EXCEPT ![p] =
            IF Row("Job", job_id) \in held[p] THEN @ ELSE Append(@, Row("Job", job_id))]
    /\ loc' = [loc EXCEPT ![p].stmts = @ + 1, ![p].arg = job_id,
                          ![p].name = "transition_job"]
    /\ UNCHANGED <<seq, pc, want, calls, hist>>

\* A database the recipe core reaches: one recipe of the two-node recipe type
\* with its two jobs, and a job that belongs to no recipe.
InitHold ==
    /\ db = [NoRows EXCEPT
                !.recipe_type = {[id |-> 1, name |-> "rt", version |-> "1.0",
                                  is_active |-> TRUE, definition |-> DefAB]},
                !.recipe_type_revision = {[id |-> 1, recipe_type |-> 1, revision_num |-> 1,
                                           definition |-> DefAB]},
                !.recipe = {[id |-> 1, recipe_type |-> 1, recipe_type_rev |-> 1,
                             event |-> 1, data |-> {"y"}]},
                !.job = {NewJob(1, "jt1", 1), NewJob(2, "jt2", 1), NewJob(3, "jt1", 1)},
                !.recipe_job = {[job |-> 1, job_name |-> "A", recipe |-> 1],
                                [job |-> 2, job_name |-> "B", recipe |-> 1]}]
    /\ seq = [t \in Tables |-> IF t = "job" THEN 4
                               ELSE IF t \in {"recipe_job", "error"} THEN 1 ELSE 2]
    /\ tx = [p \in Procs |-> NoRows]
    /\ pc = [p \in Procs |-> "idle"]
    /\ loc = [p \in Procs |-> NoLoc]
    /\ held = [p \in Procs |-> {}]
    /\ want = [p \in Procs |-> <<>>]
    /\ lockLog = [p \in Procs |-> <<>>]
    /\ calls = MaxHoldTxns
    /\ hist = NoHist

\* A scheduler's transaction begins with one of the two queries and then
\* transitions jobs.
NextHold ==
    \E p \in Procs :
        \/ BeginTxn(p)
        \/ loc[p].stmts = 0 /\ \E j \in Issued("job") : GetLockedRecipeForJob(p, j)
        \/ /\ loc[p].stmts = 0
           /\ \E r \in Issued("recipe"), jobs_related \in BOOLEAN, jobs_lock \in BOOLEAN :
                  GetRecipeJobs(p, r, jobs_related, jobs_lock)
        \/ loc[p].stmts > 0 /\ \E j \in Issued("job") : TransitionJob(p, j)
        \/ LockNext(p)
        \/ RjJobQuery(p)
        \/ EndTxn(p)

SpecHold == InitHold /\ [][NextHold]_vars

(***************************************************************************)
(* Reporting: the listing and detail queries, made while a scheduler's     *)
(* transaction holds row locks.                                            *)
(***************************************************************************)
\* get_recipes(type_ids, type_names), called without a time range and
\* without an order: the recipes of the given types (of every type when none
\* is given), which come ordered by last_modified.
GetRecipes(p, type_ids, type_names) ==
    /\ Free(p)
    /\ calls > 0
    /\ calls' = calls - 1
    /\ loc' = [loc EXCEPT ![p] =
            [NoLoc EXCEPT !.op = "get_recipes", !.outcome = "ok",
                          !.fields = {<<type_ids, type_names>>},
                          !.seen =
                {r \in db.recipe :
                    /\ type_ids # {} => r.recipe_type \in type_ids
                    /\ type_names # {} =>
                           \E t \in db.recipe_type :
                               t.id = r.recipe_type /\ t.name \in type_names}]]
    /\ pc' = [pc EXCEPT ![p] = "done"]
    /\ UNCHANGED <<db, tx, seq, held, want, lockLog, hist>>

\* get_recipe_types(), called without a time range and without an order:
\* every recipe type.
GetRecipeTypes(p) ==
    /\ Free(p)
    /\ calls > 0
    /\ calls' = calls - 1
    /\ loc' = [loc EXCEPT ![p] =
            [NoLoc EXCEPT !.op = "get_recipe_types", !.outcome = "ok",
                          !.seen = db.recipe_type]]
    /\ pc' = [pc EXCEPT ![p] = "done"]
    /\ UNCHANGED <<db, tx, seq, held, want, lockLog, hist>>

\* RecipeTypeManager.get_details(recipe_type_id): RecipeType.objects.get(pk),
\* which raises DoesNotExist when there is no such row; the job types of its
\* definition are added to the object.
GetRecipeTypeDetails(p, recipe_type_id) ==
    /\ Free(p)
    /\ calls > 0
    /\ calls' = calls - 1
    /\ LET found == {t \in db.recipe_type : t.id = recipe_type_id}
       IN  loc' = [loc EXCEPT ![p] =
               [NoLoc EXCEPT !.op = "get_recipe_type_details", !.arg = recipe_type_id,
                             !.ret = found,
                             !.seen = UNION {{n.job_type : n \in Range(t.definition.nodes)} :
                                                t \in found},
                             !.outcome = IF found = {} THEN "DoesNotExist" ELSE "ok"]]
    /\ pc' = [pc EXCEPT ![p] = "done"]
    /\ UNCHANGED <<db, tx, seq, held, want, lockLog, hist>>

\* RecipeTypeRevision.objects.get_latest_revision(recipe_type_id), called by
\* a reader.
LatestRevision(p, recipe_type_id) ==
    /\ Free(p)
    /\ calls > 0
    /\ calls' = calls - 1
    /\ loc' = [loc EXCEPT ![p] =
            [NoLoc EXCEPT !.op = "get_latest_revision", !.arg = recipe_type_id,
                          !.seen = db.recipe_type_revision,
                          !.ret = GetLatestRevision(db.recipe_type_revision, recipe_type_id),
                          !.outcome = "ok"]]
    /\ pc' = [pc EXCEPT ![p] = "done"]
    /\ UNCHANGED <<db, tx, seq, held, want, lockLog, hist>>

\* Revision tables the recipe core reaches with two recipe types: the first
\* type edited once or twice, the second type not edited, in the order the
\* ids tell.  The revision of id 2 is one of the first type in each.
ReportRevisions ==
    {{[id |-> i, recipe_type |-> types[i],
       revision_num |-> Cardinality({j \in 1..i : types[j] = types[i]}),
       definition |-> IF i % 2 = 1 THEN DefA ELSE DefAB] : i \in DOMAIN types} :
       types \in {<<1, 1, 2>>, <<1, 1, 2, 1>>, <<2, 1, 1>>}}

\* A database the recipe core reaches: two recipe types and their revisions,
\* one recipe of the first type with its two jobs, a job of no recipe, and
\* two errors.
InitReport ==
    /\ \E revisions \in ReportRevisions :
         /\ db = [recipe_type |->
                     {[id |-> 1, name |-> "rt", version |-> "1.0", is_active |-> TRUE,
                       definition |-> DefAB],
                      [id |-> 2, name |-> "rt", version |-> "2.0", is_active |-> TRUE,
                       definition |-> DefA]},
                  recipe_type_revision |-> revisions,
                  recipe |-> {[id |-> 1, recipe_type |-> 1, recipe_type_rev |-> 2,
                               event |-> 1, data |-> {"y"}]},
                  job |-> {NewJob(1, "jt1", 1), NewJob(2, "jt2", 1), NewJob(3, "jt1", 1)},
                  recipe_job |-> {[job |-> 1, job_name |-> "A", recipe |-> 1],
                                  [job |-> 2, job_name |-> "B", recipe |-> 1]},
                  error |-> Fixture(<<"nfs", "unknown">>)]
         /\ seq = [recipe_type |-> 3, recipe_type_revision |-> Cardinality(revisions) + 1,
                   recipe |-> 2, job |-> 4, recipe_job |-> 1, error |-> 3]
    /\ tx = [p \in Procs |-> NoRows]
    /\ pc = [p \in Procs |-> "idle"]
    /\ loc = [p \in Procs |-> NoLoc]
    /\ held = [p \in Procs |-> {}]
    /\ want = [p \in Procs |-> <<>>]
    /\ lockLog = [p \in Procs |-> <<>>]
    /\ calls = MaxReportCalls
    /\ hist = NoHist

\* Process 1 is a scheduler: it locks the jobs of a recipe and transitions
\* them.  Every process reads; get_recipe_jobs without jobs_lock is called
\* in a transaction of the reader's.
NextReport ==
    \E p \in Procs :
        \/ BeginTxn(p)
        \/ /\ loc[p].stmts = 0
           /\ \E r \in Issued("recipe"), jobs_related \in BOOLEAN :
                  GetRecipeJobs(p, r, jobs_related, p = 1)
        \/ p = 1 /\ loc[p].stmts > 0 /\ \E j \in Issued("job") : TransitionJob(p, j)
        \/ LockNext(p)
        \/ RjJobQuery(p)
        \/ EndTxn(p)
        \/ GetErrors(p, NoTime, NoTime, <<>>)
        \/ \E type_ids \in {{}, {2}}, type_names \in {{}, {"rt"}} :
               GetRecipes(p, type_ids, type_names)
        \/ GetRecipeTypes(p)
        \/ \E r \in Issued("recipe") : GetDetails(p, r)
        \/ GdJobs(p)
        \/ \E t \in 1..3 : GetRecipeTypeDetails(p, t)
        \/ \E t \in 1..3 : LatestRevision(p, t)

SpecReport == InitReport /\ [][NextReport]_vars

(***************************************************************************)
(* A recipe type edited again and again, and recipes created of it.        *)
(***************************************************************************)
InitRev == InitWithType(DefA, MaxRevCalls)

\* Every process edits the recipe type; process 1 creates recipes too.
NextRev ==
    \E p \in Procs :
        \/ \E t \in Issued("recipe_type"), d \in {DefA, DefAB} : EditRecipeType(p, t, d)
        \/ EditLocked(p)
        \/ RevRead(p)
        \/ RevInsert(p)
        \/ p = 1 /\ \E rt \in db.recipe_type, data \in DataValues : CreateRecipe(p, rt, 1, data)
        \/ CrBind(p)
        \/ CrSave(p)
        \/ CrJob(p)
        \/ CrLink(p)
        \/ Commit(p)

SpecRev == InitRev /\ [][NextRev]_vars

(***************************************************************************)
(* Recipe types validated and created: validate_recipe_type,               *)
(* create_recipe_type.                                                     *)
(***************************************************************************)
\* The warnings validate_job_interfaces() returns for a definition it
\* accepts: the definitions of the model give rise to none.
JobInterfaceWarnings(definition) == <<>>

\* (mutant) every definition is accepted.
ValidateRecipeTypeLenient(p, key, definition) ==
    /\ Free(p)
    /\ calls > 0
    /\ calls' = calls - 1
    /\ pc' = [pc EXCEPT ![p] = "done"]
    /\ loc' = [loc EXCEPT ![p] =
            [NoLoc EXCEPT !.op = "validate_recipe_type", !.definition = {definition},
                          !.outcome = "ok"]]
    /\ UNCHANGED <<db, tx, seq, held, want, lockLog, hist>>

\* validate_recipe_type: return definition.validate_job_interfaces(), which
\* raises InvalidDefinition or returns the warnings.
ValidateRecipeType(p, key, definition) ==
    /\ Free(p)
    /\ calls > 0
    /\ calls' = calls - 1
    /\ pc' = [pc EXCEPT ![p] = "done"]
    /\ loc' = [loc EXCEPT ![p] =
            IF ~ValidJobInterfaces(definition)
            THEN [NoLoc EXCEPT !.op = "validate_recipe_type", !.definition = {definition},
                               !.outcome = "InvalidDefinition"]
            ELSE [NoLoc EXCEPT !.op = "validate_recipe_type", !.definition = {definition},
                               !.list = JobInterfaceWarnings(definition),
                               !.outcome = "ok"]]
    /\ UNCHANGED <<db, tx, seq, held, want, lockLog, hist>>

\* An empty database.
InitValid ==
    /\ db = NoRows
    /\ tx = [p \in Procs |-> NoRows]
    /\ seq = [t \in Tables |-> 1]
    /\ pc = [p \in Procs |-> "idle"]
    /\ loc = [p \in Procs |-> NoLoc]
    /\ held = [p \in Procs |-> {}]
    /\ want = [p \in Procs |-> <<>>]
    /\ lockLog = [p \in Procs |-> <<>>]
    /\ calls = MaxValidCalls
    /\ hist = NoHist

NextValid ==
    \E p \in Procs :
        \/ \E key \in TypeKeys, d \in Definitions : ValidateRecipeType(p, key, d)
        \/ \E key \in TypeKeys, d \in Definitions : CreateRecipeType(p, key, d)
        \/ CrtSave(p)
        \/ RevRead(p)
        \/ RevInsert(p)
        \/ Commit(p)

SpecValid == InitValid /\ [][NextValid]_vars

(***************************************************************************)
(* util.rest.check_time_range, as test_rest.py exercises it.               *)
(***************************************************************************)
\* max_duration=None: no limit.
NoDuration == 0

\* (mutant) a range of no length is accepted.
CheckTimeRangeAllowsEqual(started, ended, max_duration) ==
    IF started = NoTime \/ ended = NoTime THEN "ok"
    ELSE IF started > ended THEN "BadParameter"
    ELSE IF max_duration # NoDuration /\ ended - started > max_duration
         THEN "BadParameter"
    ELSE "ok"

\* check_time_range(started, ended, max_duration): True, or BadParameter
\* raised.  A range with a bound missing is valid; started must come before
\* ended; the duration must not be longer than max_duration when one is
\* given.
CheckTimeRangeResult(started, ended, max_duration) ==
    IF started = NoTime \/ ended = NoTime THEN "ok"
    ELSE IF started = ended THEN "BadParameter"
    ELSE IF started > ended THEN "BadParameter"
    ELSE IF max_duration # NoDuration /\ ended - started > max_duration
         THEN "BadParameter"
    ELSE "ok"

\* The time ranges and duration limits the check is called with.
RangeInputs == {NoTime, 1, 2, 4} \X {NoTime, 1, 2, 4} \X {NoDuration, 2}

\* A request handler checks the time range it was given.
CheckTimeRange(p) ==
    /\ pc[p] = "idle"
    /\ loc[p].op = "check_time_range"
    /\ \E f \in loc[p].fields :
           loc' = [loc EXCEPT ![p].outcome = CheckTimeRangeResult(f[1], f[2], f[3])]
    /\ pc' = [pc EXCEPT ![p] = "done"]
    /\ UNCHANGED <<db, tx, seq, held, want, lockLog, calls, hist>>

\* Each process has a request with a time range to check.
InitRange ==
    /\ db = NoRows
    /\ tx = [p \in Procs |-> NoRows]
    /\ seq = [t \in Tables |-> 1]
    /\ pc = [p \in Procs |-> "idle"]
    /\ \E inputs \in [Procs -> RangeInputs] :
           loc = [p \in Procs |->
                     [NoLoc EXCEPT !.op = "check_time_range", !.fields = {inputs[p]}]]
    /\ held = [p \in Procs |-> {}]
    /\ want = [p \in Procs |-> <<>>]
    /\ lockLog = [p \in Procs |-> <<>>]
    /\ calls = 0
    /\ hist = NoHist

NextRange == \E p \in Procs : CheckTimeRange(p)

SpecRange == InitRange /\ [][NextRange]_vars

(***************************************************************************)
(* _get_system_error called inside a caller's transaction: the atomic      *)
(* block of create_error is a savepoint of that transaction.               *)
(***************************************************************************)
\* (mutant) create_error has no atomic block of its own: the failed insert
\* aborts the caller's transaction, whose writes are lost.
RollbackWholeTransaction(p) ==
    tx' = [tx EXCEPT ![p] = NoRows]

\* An exception leaves the atomic block of create_error, nested in the
\* caller's transaction: the writes made since the block was entered are
\* discarded.
RollbackToSavepoint(p) ==
    tx' = [tx EXCEPT ![p] = CHOOSE saved \in loc[p].seen : TRUE]

\* _get_system_error in a caller's transaction: Error.objects.get(name=name)
\* returns the row; on DoesNotExist the miss is logged and
\* create_error('setup', ...) is entered, which sets a savepoint (kept in
\* seen: the writes of the transaction so far).
NestedGetSystemError(p, name) ==
    /\ pc[p] = "txn"
    /\ loc[p].stmts < MaxStmts
    /\ LET found == {e \in Visible(p).error : e.name = name}
           l == [loc[p] EXCEPT !.stmts = @ + 1, !.name = name, !.found = found]
       IN  IF found # {}
           THEN /\ loc' = [loc EXCEPT ![p] = [l EXCEPT !.ret = found, !.log = <<>>]]
                /\ pc' = pc
           ELSE /\ loc' = [loc EXCEPT ![p] =
                        [l EXCEPT !.log = <<"missing expected error">>,
                                  !.ret = {},
                                  !.seen = {tx[p]},
                                  !.error = {NewError("setup", "Database Setup",
                                                      "Initial database import missing.",
                                                      "SYSTEM")}]]
                /\ pc' = [pc EXCEPT ![p] = "nce_save"]
    /\ UNCHANGED <<db, tx, seq, held, want, lockLog, calls, hist>>

\* create_error in a caller's transaction, error.save() and the exit of the
\* atomic block: the insert waits while another open transaction holds the
\* name; when a row has the name it fails with IntegrityError, the block
\* rolls back to its savepoint and _get_system_error logs and returns None;
\* otherwise the row is written and returned.
NestedCeSave(p) ==
    /\ pc[p] = "nce_save"
    /\ LET error == [(CHOOSE e \in loc[p].error : TRUE) EXCEPT
                         !.id = seq.error, !.last_modified = seq.error]
       IN  /\ \A q \in Procs \ {p} : ~NameTaken(tx[q].error, error.name)
           /\ seq' = [seq EXCEPT !.error = @ + 1]
           /\ IF NameTaken(Visible(p).error, error.name)
              THEN /\ RollbackToSavepoint(p)
                   /\ db' = db
                   /\ loc' = [loc EXCEPT ![p].ret = {}, ![p].error = {},
                                         ![p].seen = {},
                                         ![p].log =
                                 Append(@, "Unable to create default error.")]
              ELSE /\ Write(p, "error", error)
                   /\ loc' = [loc EXCEPT ![p].ret = {error}, ![p].error = {},
                                         ![p].seen = {}]
    /\ pc' = [pc EXCEPT ![p] = "txn"]
    /\ UNCHANGED <<held, want, lockLog, calls, hist>>

\* A database in use: the jobs of InitHold's recipe, and the fixture of
\* built-in errors without "database", with or without a 'setup' row.
InitNest ==
    /\ \E names \in {<<"nfs">>, <<"nfs", "setup">>} :
         /\ db = [NoRows EXCEPT
                     !.job = {NewJob(1, "jt1", 1), NewJob(2, "jt2", 1)},
                     !.error = Fixture(names)]
         /\ seq = [[t \in Tables |-> 1] EXCEPT !.job = 3, !.error = Len(names) + 1]
    /\ tx = [p \in Procs |-> NoRows]
    /\ pc = [p \in Procs |-> "idle"]
    /\ loc = [p \in Procs |-> NoLoc]
    /\ held = [p \in Procs |-> {}]
    /\ want = [p \in Procs |-> <<>>]
    /\ lockLog = [p \in Procs |-> <<>>]
    /\ calls = MaxNestTxns
    /\ hist = NoHist

\* A caller transitions jobs and asks for system errors in one transaction.
NextNest ==
    \E p \in Procs :
        \/ BeginTxn(p)
        \/ \E j \in Issued("job") : TransitionJob(p, j)
        \/ \E name \in {"database", "nfs"} : NestedGetSystemError(p, name)
        \/ NestedCeSave(p)
        \/ EndTxn(p)

SpecNest == InitNest /\ [][NextNest]_vars

(***************************************************************************)
(* create_recipe on recipe types with and without a revision.              *)
(***************************************************************************)
\* The id of a model that was never saved (None).
NoId == 0

\* A RecipeType() object that was never saved: no id, is_active at its
\* default.
UnsavedRecipeType ==
    [id |-> NoId, name |-> "new", version |-> "1.0", is_active |-> TRUE,
     definition |-> DefA]

\* Recipe type 1 as create_recipe_type leaves it, with its revision 1, and
\* recipe type 2 saved with RecipeType.save() alone: it has no revision.
InitBind ==
    /\ db = [NoRows EXCEPT
                !.recipe_type = {[id |-> 1, name |-> "rt", version |-> "1.0",
                                  is_active |-> TRUE, definition |-> DefA],
                                 [id |-> 2, name |-> "bare", version |-> "1.0",
                                  is_active |-> TRUE, definition |-> DefA]},
                !.recipe_type_revision = {[id |-> 1, recipe_type |-> 1, revision_num |-> 1,
                                           definition |-> DefA]}]
    /\ seq = [t \in Tables |-> IF t = "recipe_type" THEN 3
                               ELSE IF t = "recipe_type_revision" THEN 2 ELSE 1]
    /\ tx = [p \in Procs |-> NoRows]
    /\ pc = [p \in Procs |-> "idle"]
    /\ loc = [p \in Procs |-> NoLoc]
    /\ held = [p \in Procs |-> {}]
    /\ want = [p \in Procs |-> <<>>]
    /\ lockLog = [p \in Procs |-> <<>>]
    /\ calls = MaxBindCalls
    /\ hist = NoHist

\* Recipes are created for stored and for unsaved recipe types while process
\* 1 edits recipe types.
NextBind ==
    \E p \in Procs :
        \/ p = 1 /\ \E t \in Issued("recipe_type") : EditRecipeType(p, t, DefAB)
        \/ EditLocked(p)
        \/ RevRead(p)
        \/ RevInsert(p)
        \/ \E rt \in db.recipe_type \cup {UnsavedRecipeType}, e \in Events \cup {NoEvent},
              data \in DataValues :
               CreateRecipe(p, rt, e, data)
        \/ CrBind(p)
        \/ CrSave(p)
        \/ CrJob(p)
        \/ CrLink(p)
        \/ Commit(p)

SpecBind == InitBind /\ [][NextBind]_vars

(***************************************************************************)
(* create_recipe_type_revision called without the RecipeType lock.         *)
(***************************************************************************)
\* A caller that passes a recipe type it loaded to
\* create_recipe_type_revision without select_for_update(): nothing in the
\* method takes the lock.
CreateRecipeTypeRevision(p, rt) ==
    /\ Free(p)
    /\ calls > 0
    /\ calls' = calls - 1
    /\ pc' = [pc EXCEPT ![p] = "rev_read"]
    /\ loc' = [loc EXCEPT ![p] =
            [NoLoc EXCEPT !.op = "create_recipe_type_revision", !.rt = {rt}]]
    /\ UNCHANGED <<db, tx, seq, held, want, lockLog, hist>>

InitUnlocked == InitWithType(DefA, MaxUnlockedCalls)

\* Revisions are created by callers that hold the lock (edits) and by callers
\* that do not.
NextUnlocked ==
    \E p \in Procs :
        \/ \E rt \in db.recipe_type : CreateRecipeTypeRevision(p, rt)
        \/ \E t \in Issued("recipe_type") : EditRecipeType(p, t, DefAB)
        \/ EditLocked(p)
        \/ RevRead(p)
        \/ RevInsert(p)
        \/ Commit(p)

SpecUnlocked == InitUnlocked /\ [][NextUnlocked]_vars

(***************************************************************************)
(* Properties of the recipe core (Spec).                                   *)
(***************************************************************************)
\* Process p takes a step of create_recipe after its two guards: from the
\* bind of the revision on, up to but not including the commit.
InCreateRecipe(p) == pc[p] \in {"cr_bind", "cr_save", "cr_jobs", "cr_link"}

CreateRecipeFailures == {"AttributeError", "InvalidData", "JobError", "DatabaseError"}

\* C1: create_recipe is all-or-nothing.  No step of a create_recipe call
\* before its commit changes the committed rows, and a call that fails
\* (invalid data, create_job failing for any node, a RecipeJob insert
\* failing) leaves the committed Recipe, Job and RecipeJob rows as they were
\* and keeps none of its writes for a later commit.
C1_CreateRecipeAllOrNothing ==
    [][\A p \in Procs :
          /\ (InCreateRecipe(p) /\ pc'[p] # pc[p]) => db' = db
          /\ (InCreateRecipe(p) /\ loc[p] # loc'[p]) => db' = db
          /\ (InCreateRecipe(p) /\ pc'[p] = "done") =>
                 /\ loc'[p].outcome \in CreateRecipeFailures
                 /\ db' = db
                 /\ tx'[p] = NoRows]_vars

\* A create_recipe call failed at a RecipeJob insert, after its recipe and
\* its jobs were written, and no Recipe, Job or RecipeJob row is committed.
C1_Witness ==
    \E p \in Procs :
        /\ pc[p] = "done"
        /\ loc[p].op = "create_recipe"
        /\ loc[p].outcome = "DatabaseError"
        /\ seq.recipe > 1 /\ seq.job > 1
        /\ db.recipe = {} /\ db.job = {} /\ db.recipe_job = {}

\* The node names of the definition a recipe is bound to.
RecipeNodeNames(rows, recipe) ==
    UNION {{r.definition.nodes[i].name : i \in DOMAIN r.definition.nodes} :
              r \in {v \in rows.recipe_type_revision : v.id = recipe.recipe_type_rev}}

\* The recipe has exactly one RecipeJob per node of its revision's definition,
\* each of them with its Job, in the rows given.
RecipeComplete(rows, recipe, recipe_jobs) ==
    /\ \E v \in rows.recipe_type_revision : v.id = recipe.recipe_type_rev
    /\ {rj.job_name : rj \in recipe_jobs} = RecipeNodeNames(rows, recipe)
    /\ Cardinality(recipe_jobs) = Cardinality(RecipeNodeNames(rows, recipe))
    /\ \A rj \in recipe_jobs : \E j \in rows.job : j.id = rj.job

\* C2: in every committed state each Recipe row has exactly one RecipeJob row
\* per node of its bound revision's definition, each referencing an existing
\* Job; and a reader (get_details) that reads the recipe and then its jobs,
\* interleaved in any way with create_recipe, never sees only some of them.
C2_RecipeNeverPartial ==
    /\ \A r \in db.recipe :
           RecipeComplete(db, r, {rj \in db.recipe_job : rj.recipe = r.id})
    /\ \A p \in Procs :
           (pc[p] = "done" /\ loc[p].op = "get_details") =>
               \A r \in loc[p].recipe : RecipeComplete(db, r, loc[p].seen)

\* A reader has read a committed two-node recipe and got its two RecipeJob
\* rows, A and B.
C2_Witness ==
    \E p \in Procs :
        /\ pc[p] = "done" /\ loc[p].op = "get_details"
        /\ loc[p].recipe \subseteq db.recipe
        /\ {rj.job_name : rj \in loc[p].seen} = {"A", "B"}

\* The revision numbers committed for recipe type t.
RevisionNums(t) == {r.revision_num : r \in {v \in db.recipe_type_revision : v.recipe_type = t}}

\* The number of revision-creation calls committed for recipe type t.
RevisionCalls(t) == Cardinality({i \in DOMAIN hist.revOk : hist.revOk[i] = t})

\* C3: after any sequence of revision-creation calls (the first made by
\* create_recipe_type) the revision numbers of each recipe type are exactly
\* 1..n for its n calls: no gaps, no duplicates.
C3_RevisionNumsContiguous ==
    \A t \in Issued("recipe_type") :
        /\ RevisionNums(t) = 1..RevisionCalls(t)
        /\ Cardinality({v \in db.recipe_type_revision : v.recipe_type = t}) = RevisionCalls(t)

\* A recipe type has had three revision-creation calls and holds 1, 2, 3.
C3_Witness ==
    \E t \in Issued("recipe_type") : RevisionCalls(t) = 3 /\ RevisionNums(t) = {1, 2, 3}

\* Process p is inside create_recipe_type_revision for recipe type t, past its
\* read of the latest revision.
HasNextNum(p, t) ==
    /\ pc[p] \in {"rev_insert", "commit"}
    /\ loc[p].op \in {"create_recipe_type", "edit"}
    /\ \E r \in loc[p].rt : r.id = t

\* C4: concurrent revision-creation attempts for one recipe type, made by
\* callers that hold the RecipeType lock as create_recipe_type_revision
\* requires, all succeed with distinct numbers: no attempt fails on the
\* (recipe_type, revision_num) uniqueness and no two attempts in flight have
\* computed the same next number.
C4_ConcurrentRevisionsDistinct ==
    /\ hist.revFail = 0
    /\ \A p, q \in Procs : \A t \in Issued("recipe_type") :
           (p # q /\ HasNextNum(p, t) /\ HasNextNum(q, t)) =>
               loc[p].new_rev_num # loc[q].new_rev_num
    /\ \A p \in Procs : \A t \in Issued("recipe_type") :
           HasNextNum(p, t) => loc[p].new_rev_num \notin RevisionNums(t)

\* Two attempts for the same recipe type overlap: one has computed its number
\* and not yet committed while the other waits for the RecipeType lock.
C4_Witness ==
    \E p, q \in Procs :
        /\ p # q
        /\ pc[p] = "rev_insert" /\ loc[p].op = "edit" /\ loc[p].new_rev_num = 2
        /\ pc[q] = "ed_lock" /\ Head(want[q]) \in held[p]

\* C11: once a recipe is created its recipe_type_rev never changes: whatever
\* happens later (new revisions of its recipe type, other recipes), the recipe
\* row names the revision it was created with and that revision row, with its
\* definition, is as it was.
C11_RecipeRevisionFixed ==
    \A c \in hist.created :
        /\ \E r \in db.recipe : r.id = c.recipe /\ r.recipe_type_rev = c.rev.id
        /\ c.rev \in db.recipe_type_revision
        /\ \A v \in db.recipe_type_revision : v.id = c.rev.id => v = c.rev

\* A recipe's type has gained a revision after the recipe was created.
C11_Witness ==
    \E c \in hist.created : \E v \in db.recipe_type_revision :
        /\ v.recipe_type = c.rev.recipe_type
        /\ v.revision_num > c.rev.revision_num
        /\ \E r \in db.recipe : r.id = c.recipe /\ r.recipe_type_rev = c.rev.id

\* The names of the jobs of a definition.
NodeNames(definition) == {definition.nodes[i].name : i \in DOMAIN definition.nodes}

\* C12: create_recipe binds the recipe to the revision of its recipe type
\* with the highest revision_num committed when it binds, validates the data
\* against that revision's definition and creates the jobs of that
\* definition, whatever definition the recipe type object it was given holds.
C12_BindsLatestRevision ==
    [][\A p \in Procs :
          /\ (pc[p] = "cr_bind" /\ pc'[p] = "cr_save") =>
                 /\ loc'[p].rev # {}
                 /\ \A bound \in loc'[p].rev :
                        /\ bound \in db.recipe_type_revision
                        /\ \A rt \in loc[p].rt : bound.recipe_type = rt.id
                        /\ \A v \in db.recipe_type_revision :
                               v.recipe_type = bound.recipe_type =>
                                   v.revision_num <= bound.revision_num
          /\ (pc[p] = "cr_save" /\ pc'[p] # "cr_save") =>
                 \A bound \in loc[p].rev :
                     IF bound.definition.input \in loc[p].data
                     THEN /\ pc'[p] \in {"cr_jobs", "commit"}
                          /\ \A r \in loc'[p].recipe : r.recipe_type_rev = bound.id
                          /\ {n.name : n \in Range(loc'[p].todo)} = NodeNames(bound.definition)
                     ELSE pc'[p] = "done" /\ loc'[p].outcome = "InvalidData"
          /\ (pc[p] = "commit" /\ loc[p].op = "create_recipe" /\ pc'[p] = "done") =>
                 /\ db'.recipe \ db.recipe = loc[p].recipe
                 /\ \A r \in loc[p].recipe : \A bound \in loc[p].rev :
                        /\ r.recipe_type_rev = bound.id
                        /\ {rj.job_name : rj \in {x \in db'.recipe_job : x.recipe = r.id}}
                               = NodeNames(bound.definition)]_vars

\* A create_recipe call given a recipe type object with one definition has
\* bound the type's second revision, which holds another definition.
C12_Witness ==
    \E p \in Procs :
        /\ pc[p] = "commit" /\ loc[p].op = "create_recipe"
        /\ \E rt \in loc[p].rt, bound \in loc[p].rev :
               bound.revision_num = 2 /\ bound.definition # rt.definition

\* C13: create_recipe without an event always fails with the precondition
\* exception, whatever the recipe type and the data, and writes nothing: no
\* recipe (nor job nor RecipeJob) comes of it.
C13_NoEventFails ==
    /\ \A p \in Procs :
           (loc[p].op = "create_recipe" /\ loc[p].rt # {} /\ loc[p].event = NoEvent) =>
               /\ pc[p] = "done"
               /\ loc[p].outcome = "Exception"
               /\ tx[p] = NoRows
    /\ \A q \in Procs : \A r \in db.recipe \cup tx[q].recipe : r.event # NoEvent
    /\ \A q \in Procs : \A j \in db.job \cup tx[q].job : j.event # NoEvent

\* A call without an event on an active recipe type, with data the type
\* accepts, has failed.
C13_Witness ==
    \E p \in Procs :
        /\ loc[p].op = "create_recipe" /\ loc[p].event = NoEvent
        /\ loc[p].outcome = "Exception"
        /\ \E rt \in loc[p].rt : rt.is_active /\ rt.definition.input \in loc[p].data

\* C14: create_recipe with a recipe type object whose is_active is false
\* fails with the precondition exception before anything is written, whatever
\* the event and the data.
C14_InactiveTypeFails ==
    \A p \in Procs :
        (loc[p].op = "create_recipe" /\ \E rt \in loc[p].rt : ~rt.is_active) =>
            /\ pc[p] = "done"
            /\ loc[p].outcome = "Exception"
            /\ tx[p] = NoRows

\* A call with an event, on a recipe type loaded after it was archived, has
\* failed.
C14_Witness ==
    \E p \in Procs :
        /\ loc[p].op = "create_recipe" /\ loc[p].event # NoEvent
        /\ loc[p].outcome = "Exception"
        /\ \E rt \in loc[p].rt : ~rt.is_active /\ rt \in db.recipe_type

\* C15: once the stored is_active of a recipe type is false no recipe of that
\* type is created: every recipe that is committed is of a recipe type whose
\* committed row is active, also when the caller loaded the recipe type before
\* it was archived.
C15_ArchivedTypeBlocksCreation ==
    [][\A r \in db'.recipe \ db.recipe :
          \A t \in db.recipe_type : t.id = r.recipe_type => t.is_active]_vars

\* C16: after a successful create_recipe_type the new type has a revision 1
\* holding the definition passed in, and get_latest_revision returns it
\* (until a later revision of the type is committed).
C16_FirstRevisionHoldsDefinition ==
    \A p \in Procs :
        (pc[p] = "done" /\ loc[p].op = "create_recipe_type" /\ loc[p].outcome = "ok") =>
            \A rt \in loc[p].ret :
                \E v \in db.recipe_type_revision :
                    /\ v.recipe_type = rt.id
                    /\ v.revision_num = 1
                    /\ loc[p].definition = {v.definition}
                    /\ RevisionCalls(rt.id) = 1 =>
                           GetLatestRevision(db.recipe_type_revision, rt.id) = {v}

\* create_recipe_type has returned the new type with the two-job definition
\* and no other revision of the type exists.
C16_Witness ==
    \E p \in Procs :
        /\ pc[p] = "done" /\ loc[p].op = "create_recipe_type" /\ loc[p].outcome = "ok"
        /\ loc[p].definition = {DefAB}
        /\ \A rt \in loc[p].ret : RevisionCalls(rt.id) = 1

\* C17: create_recipe_type with a definition that fails validation (a job of
\* an unknown job type) fails with InvalidDefinition and writes nothing: no
\* recipe type and no revision holds such a definition.
C17_InvalidDefinitionPersistsNothing ==
    /\ \A p \in Procs :
           (loc[p].op = "create_recipe_type" /\ loc[p].definition = {DefBad}) =>
               /\ pc[p] = "done"
               /\ loc[p].outcome = "InvalidDefinition"
               /\ tx[p] = NoRows
    /\ \A q \in Procs :
           /\ \A t \in db.recipe_type \cup tx[q].recipe_type : t.definition # DefBad
           /\ \A v \in db.recipe_type_revision \cup tx[q].recipe_type_revision :
                  v.definition # DefBad

\* A create_recipe_type call has failed with InvalidDefinition.
C17_Witness ==
    \E p \in Procs :
        /\ pc[p] = "done" /\ loc[p].op = "create_recipe_type"
        /\ loc[p].definition = {DefBad} /\ loc[p].outcome = "InvalidDefinition"

\* C18: the RecipeType row and its revision 1 are committed together: every
\* committed recipe type has a revision 1, and a create_recipe_type call whose
\* revision insert fails leaves no recipe type row.
C18_TypeAndFirstRevisionAtomic ==
    /\ \A t \in db.recipe_type :
           \E v \in db.recipe_type_revision : v.recipe_type = t.id /\ v.revision_num = 1
    /\ \A p \in Procs :
           (pc[p] = "done" /\ loc[p].op = "create_recipe_type" /\ loc[p].outcome # "ok") =>
               tx[p] = NoRows
    /\ Cardinality(db.recipe_type) =
           Cardinality({i \in DOMAIN hist.revOk :
                            \A j \in DOMAIN hist.revOk : hist.revOk[j] = hist.revOk[i] => i <= j})

\* The revision insert of a create_recipe_type call failed after the type row
\* had been written under a new id, and no row has that id.
C18_Witness ==
    \E p \in Procs :
        /\ pc[p] = "done" /\ loc[p].op = "create_recipe_type"
        /\ loc[p].outcome = "DatabaseError"
        /\ \E id \in Issued("recipe_type") : \A t \in db.recipe_type : t.id # id

\* C19: (name, version) is unique over the committed recipe types, and a
\* create_recipe_type call for a (name, version) that exists fails with a
\* conflict and leaves nothing behind: no second type and no revision without
\* its type, also when two such calls run at once.
C19_TypeKeyUnique ==
    /\ \A a, b \in db.recipe_type :
           (a.name = b.name /\ a.version = b.version) => a = b
    /\ \A v \in db.recipe_type_revision : \E t \in db.recipe_type : t.id = v.recipe_type
    /\ \A p \in Procs :
           (pc[p] = "done" /\ loc[p].op = "create_recipe_type"
                /\ loc[p].outcome = "IntegrityError") =>
               /\ tx[p] = NoRows
               /\ db.recipe_type # {}

\* A create_recipe_type call for the (name, version) of a committed type has
\* failed with the conflict; the one type is there with its one revision.
C19_Witness ==
    \E p \in Procs :
        /\ pc[p] = "done" /\ loc[p].op = "create_recipe_type"
        /\ loc[p].outcome = "IntegrityError"
        /\ Cardinality(db.recipe_type) = 1
        /\ Cardinality(db.recipe_type_revision) = 1

(***************************************************************************)
(* Properties of a recipe created and read (SpecRead).                     *)
(***************************************************************************)
\* The RecipeJob rows of a recipe among the committed rows.
RecipeJobsOf(recipe_id) == {rj \in db.recipe_job : rj.recipe = recipe_id}

\* The recipe committed as c has one RecipeJob per job of its revision's
\* definition, named after it, each on a job of its own that has the job
\* type of that name and the recipe's event.
CreatedComplete(c) ==
    LET definition == c.rev.definition
        recipe_jobs == RecipeJobsOf(c.recipe)
    IN  /\ Cardinality({r \in db.recipe : r.id = c.recipe}) = 1
        /\ Cardinality(recipe_jobs) = Len(definition.nodes)
        /\ {rj.job_name : rj \in recipe_jobs} = NodeNames(definition)
        /\ Cardinality({rj.job : rj \in recipe_jobs}) = Len(definition.nodes)
        /\ \A rj \in recipe_jobs :
               /\ \A o \in db.recipe_job : o.job = rj.job => o = rj
               /\ \E j \in db.job, r \in db.recipe :
                      /\ j.id = rj.job /\ r.id = c.recipe /\ j.event = r.event
                      /\ \E i \in DOMAIN definition.nodes :
                             /\ definition.nodes[i].name = rj.job_name
                             /\ definition.nodes[i].job_type = j.job_type

\* C20: a successful create_recipe on a revision with jobs S commits exactly
\* one Recipe row, |S| new Job rows and |S| RecipeJob rows named S, each on a
\* new job of its own with that name's job type and the event; from then on
\* get_recipe_jobs(recipe id) returns exactly those RecipeJob rows and
\* get_locked_recipe_for_job(job id) returns that recipe for each of its jobs.
C20_CreateRecipeEndToEnd ==
    [][/\ \A p \in Procs :
              (pc[p] = "commit" /\ loc[p].op = "create_recipe" /\ pc'[p] = "done") =>
                  /\ db'.recipe \ db.recipe = loc[p].recipe
                  /\ \A bound \in loc[p].rev :
                         /\ Cardinality(db'.job \ db.job) = Len(bound.definition.nodes)
                         /\ Cardinality(db'.recipe_job \ db.recipe_job)
                                = Len(bound.definition.nodes)
                  /\ \A rj \in db'.recipe_job \ db.recipe_job :
                         /\ \E r \in loc[p].recipe : rj.recipe = r.id
                         /\ \E j \in db'.job \ db.job : j.id = rj.job
       /\ (\A c \in hist.created : CreatedComplete(c))'
       /\ \A p \in Procs : \A c \in hist.created :
              (loc'[p].stmts = loc[p].stmts + 1 /\ loc'[p].arg = c.recipe
                   /\ loc'[p].name = "get_recipe_jobs") =>
                  loc'[p].seen = RecipeJobsOf(c.recipe)
       /\ \A p \in Procs : \A c \in hist.created : \A rj \in RecipeJobsOf(c.recipe) :
              (loc'[p].stmts = loc[p].stmts + 1 /\ loc'[p].arg = rj.job
                   /\ loc'[p].name = "get_locked_recipe_for_job") =>
                  /\ loc'[p].ret = {r \in db.recipe : r.id = c.recipe}
                  /\ loc'[p].ret # {}]_vars

\* A transaction has read, with get_recipe_jobs, the two RecipeJob rows of a
\* recipe that create_recipe committed and then, with
\* get_locked_recipe_for_job on the job of one of them, that recipe.
C20_Witness ==
    \E p \in Procs : \E c \in hist.created :
        /\ pc[p] \in {"txn", "locking"}
        /\ loc[p].name = "get_locked_recipe_for_job"
        /\ loc[p].seen = RecipeJobsOf(c.recipe)
        /\ {rj.job_name : rj \in loc[p].seen} = {"A", "B"}
        /\ \E rj \in loc[p].seen : loc[p].arg = rj.job
        /\ \A r \in loc[p].ret : r.id = c.recipe
        /\ loc[p].ret # {}

(***************************************************************************)
(* Properties of the error registry (SpecErr).                             *)
(***************************************************************************)
\* Process p has completed a _get_system_error call for a name that was
\* absent when it looked it up.
SystemErrorMissed(p) ==
    pc[p] = "done" /\ loc[p].op = "get_system_error" /\ loc[p].found = {}

\* C5: when the requested system error is absent, the first
\* _get_system_error call creates and returns the fallback 'setup'; every
\* later call for an absent name returns that same row, and exactly one
\* 'setup' row exists.
C5_FallbackReturnedAgain ==
    /\ \A p \in Procs :
           (SystemErrorMissed(p) /\ hist.fallback # {}) => loc[p].ret = hist.fallback
    /\ Cardinality({e \in db.error : e.name = "setup"}) <= 1

\* C6: _get_system_error never raises: it returns the named error when it is
\* present, the new 'setup' fallback when the name is absent and the fallback
\* can be created, and None, after logging, when creating the fallback fails.
C6_GetSystemErrorNeverRaises ==
    \A p \in Procs :
        (pc[p] = "done" /\ loc[p].op = "get_system_error") =>
            /\ loc[p].outcome = "ok"
            /\ loc[p].found # {} =>
                   /\ loc[p].ret = loc[p].found
                   /\ \A e \in loc[p].ret : e.name = loc[p].name /\ e \in db.error
            /\ loc[p].found = {} =>
                   \/ /\ loc[p].ret # {}
                      /\ \A e \in loc[p].ret :
                             e.name = "setup" /\ e.category = "SYSTEM" /\ e \in db.error
                      /\ loc[p].log = <<"missing expected error">>
                   \/ /\ loc[p].ret = {}
                      /\ \E e \in db.error : e.name = "setup"
                      /\ loc[p].log =
                             <<"missing expected error", "Unable to create default error.">>

\* A call for an absent name found 'setup' already there, could not create
\* the fallback and returned None.
C6_Witness ==
    \E p \in Procs :
        SystemErrorMissed(p) /\ loc[p].ret = {} /\ Len(loc[p].log) = 2

(***************************************************************************)
(* Properties of the locking transactions (SpecLock).           *)
(***************************************************************************)
\* The kinds of the rows process p has locked, and is asking for, in order.
LockSequence(p) ==
    IF want[p] = <<>> THEN lockLog[p] ELSE Append(lockLog[p], Head(want[p]))

\* C7: every transaction acquires its locks in the order JobExecution,
\* Recipe, Job, RecipeType, JobType, TriggerRule: none acquires a lock on an
\* earlier kind while it holds a lock on a later kind.
C7_LockOrderObeyed ==
    \A p \in Procs : \A i, j \in DOMAIN lockLog[p] :
        i < j => LockRank(lockLog[p][i][1]) <= LockRank(lockLog[p][j][1])

\* p waits for a row lock that q holds.
WaitsFor(p, q) == p # q /\ want[p] # <<>> /\ Head(want[p]) \in held[q]

\* The processes of S that p reaches along waits within S in n steps or fewer.
RECURSIVE WaitReach(_, _, _)
WaitReach(S, p, n) ==
    IF n = 0 THEN {}
    ELSE LET next == {q \in S : WaitsFor(p, q)}
         IN  next \cup UNION {WaitReach(S, q, n - 1) : q \in next}

\* No transaction of S waits, through transactions of S, for itself.
NoDeadlockAmong(S) == \A p \in S : p \notin WaitReach(S, p, NumProcs)

\* p obeys the order of kinds in the locks it has taken and asks for.
KindOrdered(p) ==
    \A i, j \in DOMAIN LockSequence(p) :
        i < j => LockRank(LockSequence(p)[i][1]) <= LockRank(LockSequence(p)[j][1])

\* C8: transactions that each obey the order of kinds never
\* deadlock: the wait-for relation among them is acyclic.
C8_KindOrderNoDeadlock ==
    NoDeadlockAmong({p \in Procs : KindOrdered(p)})

(***************************************************************************)
(* Properties of the RecipeJob table (SpecSave).                           *)
(***************************************************************************)
\* C9: a job id appears in at most one RecipeJob row, after any sequence of
\* create_recipe calls and direct RecipeJob saves.
C9_JobInAtMostOneRecipeJob ==
    \A a, b \in db.recipe_job : a.job = b.job => a = b

\* A direct save of a job that had a RecipeJob row went through and the row
\* it wrote, different from the old one, is in the table.
C9_Witness ==
    \E p \in Procs :
        /\ pc[p] = "done" /\ loc[p].op = "save_recipe_job" /\ loc[p].outcome = "ok"
        /\ loc[p].found # {} /\ loc[p].ret # loc[p].found
        /\ loc[p].ret \subseteq db.recipe_job

\* C10: a save of a RecipeJob for a job that is linked to a recipe R1, naming
\* another recipe R2, is rejected with an error and leaves the RecipeJob rows
\* as they were.
C10_RelinkRejected ==
    [][\A p \in Procs :
          (/\ calls' = calls - 1
           /\ loc'[p].op = "save_recipe_job"
           /\ pc'[p] = "done"
           /\ \E old \in db.recipe_job, new \in loc'[p].ret :
                  old.job = new.job /\ old.recipe # new.recipe)
          => (loc'[p].outcome # "ok" /\ db'.recipe_job = db.recipe_job)]_vars

(***************************************************************************)
(* Order of the jobs of a recipe (SpecRead).                               *)
(***************************************************************************)
\* The names of a sequence of nodes, in order.
DeclaredNames(nodes) == [i \in DOMAIN nodes |-> nodes[i].name]

\* The names of a sequence of <<name, job id>> pairs, in order.
NamesOf(s) == [i \in DOMAIN s |-> s[i][1]]

\* s is the beginning of t.
IsPrefix(s, t) == Len(s) <= Len(t) /\ s = SubSeq(t, 1, Len(s))

\* s is the end of t.
IsSuffix(s, t) == Len(s) <= Len(t) /\ s = SubSeq(t, Len(t) - Len(s) + 1, Len(t))

\* C21: create_recipe calls create_job for the nodes in the order the
\* definition declares them, and saves the RecipeJob rows in that same order:
\* the jobs made so far are the first declared nodes and the RecipeJob rows
\* still to save are the last declared nodes.
C21_JobsInDeclarationOrder ==
    \A p \in Procs :
        (loc[p].op = "create_recipe" /\ pc[p] \in {"cr_jobs", "cr_link"}) =>
            LET declared == DeclaredNames((CHOOSE r \in loc[p].rev : TRUE).definition.nodes)
            IN  /\ IsPrefix(NamesOf(loc[p].jobs), declared)
                /\ IsSuffix(NamesOf(loc[p].links), declared)

(***************************************************************************)
(* Properties of the locking queries (SpecHold).                           *)
(***************************************************************************)
\* Process p's statement get_locked_recipe_for_job starts in this step.
LockedRecipeCalled(p) ==
    /\ pc[p] = "txn"
    /\ loc'[p].stmts = loc[p].stmts + 1
    /\ loc'[p].name = "get_locked_recipe_for_job"

\* Process p's statement get_locked_recipe_for_job returns a recipe in this
\* step.
LockedRecipeReturned(p) ==
    /\ pc[p] = "locking"
    /\ pc'[p] = "txn"
    /\ loc[p].name = "get_locked_recipe_for_job"

\* Process p waits for a row lock another transaction holds.
Blocked(p) == want[p] # <<>> /\ ~LockFree(p, Head(want[p]))

\* C22: get_locked_recipe_for_job(job_id) returns None, raising nothing and
\* locking nothing, when no RecipeJob has that job; otherwise it returns the
\* recipe of the job's RecipeJob with that Recipe row locked by the caller's
\* transaction.  A row lock is held by one transaction at a time, it is kept
\* until the transaction ends, and a caller asking for a row that another
\* transaction holds does not go on.
C22_LockedRecipeForJob ==
    [][\A p \in Procs :
          /\ LockedRecipeCalled(p) =>
                LET owners == {rj.recipe : rj \in {x \in Visible(p).recipe_job :
                                                       x.job = loc'[p].arg}}
                IN  /\ loc'[p].ret = {r \in Visible(p).recipe : r.id \in owners}
                    /\ loc'[p].outcome = "none"
                    /\ owners = {} => (pc'[p] = "txn" /\ held' = held /\ want' = want)
                    /\ owners # {} => pc'[p] = "locking"
          /\ LockedRecipeReturned(p) =>
                /\ Cardinality(loc[p].ret) = 1
                /\ \A r \in loc[p].ret : Row("Recipe", r.id) \in held'[p]
          /\ \A q \in Procs \ {p} : held'[p] \cap held'[q] = {}
          /\ (held[p] \subseteq held'[p]) \/ pc'[p] = "done"
          /\ Blocked(p) => (want'[p] = want[p] /\ held'[p] = held[p])]_vars

\* One transaction holds the Recipe row that get_locked_recipe_for_job
\* returned to it, and another one, asking for the recipe of a job of the
\* same recipe, waits for it.
C22_Witness ==
    \E p, q \in Procs :
        /\ p # q
        /\ pc[p] = "txn" /\ loc[p].name = "get_locked_recipe_for_job"
        /\ \E r \in loc[p].ret : Row("Recipe", r.id) \in held[p]
        /\ pc[q] = "locking" /\ loc[q].name = "get_locked_recipe_for_job"
        /\ loc[q].ret = loc[p].ret
        /\ Blocked(q)

\* Process p's statement get_recipe_jobs, made with jobs_lock, returns in
\* this step: it has locked the last row of its job query.
RecipeJobsLockedReturned(p) ==
    /\ pc[p] = "locking"
    /\ pc'[p] = "txn"
    /\ loc[p].name = "get_recipe_jobs"

\* The ids of the jobs of a recipe, as process p's queries see them.
JobsOfRecipe(p, recipe_id) ==
    {rj.job : rj \in {x \in Visible(p).recipe_job : x.recipe = recipe_id}}

\* C23: when get_recipe_jobs(recipe_id, jobs_lock=True) returns, the caller's
\* transaction holds the row lock of every job of the recipe; it keeps its
\* locks until it ends, and meanwhile no other transaction has a change of
\* one of those jobs under way.
C23_RecipeJobsLocked ==
    [][\A p \in Procs :
          /\ RecipeJobsLockedReturned(p) =>
                /\ JobsOfRecipe(p, loc[p].arg) # {}
                /\ \A j \in JobsOfRecipe(p, loc[p].arg) : Row("Job", j) \in held'[p]
          /\ (held[p] \subseteq held'[p]) \/ pc'[p] = "done"
          /\ \A q \in Procs \ {p} : \A j \in tx'[q].job :
                Row("Job", j.id) \notin held'[p]
          /\ \A j \in db.job :
                (Row("Job", j.id) \in held[p] /\ pc'[p] # "done") => j \in db'.job]_vars

\* A scheduler has locked both jobs of the recipe with get_recipe_jobs and
\* transitioned one of them, while another transaction that has made a query
\* is open and has changed nothing.
C23_Witness ==
    \E p, q \in Procs :
        /\ p # q
        /\ pc[p] = "txn" /\ loc[p].name = "transition_job" /\ loc[p].seen # {}
        /\ \A rj \in loc[p].seen : Row("Job", rj.job) \in held[p]
        /\ \E j \in tx[p].job : j.status = "RUNNING"
        /\ pc[q] = "txn" /\ loc[q].stmts > 0 /\ tx[q].job = {}

(***************************************************************************)
(* Properties of create_error (SpecErr).                                   *)
(***************************************************************************)
\* Process p's create_error call, made by a caller, ends in this step.
CreateErrorEnds(p) ==
    /\ loc[p].op = "create_error"
    /\ pc[p] \in {"ce_save", "ce_commit"}
    /\ pc'[p] = "done"

\* The Error rows that hold the field values <<name, title, description,
\* category>> of a call.
RowsWithFields(rows, fields) ==
    {e \in rows : <<e.name, e.title, e.description, e.category>> \in fields}

\* C24: no two Error rows have the same name.  A create_error call whose
\* name a stored row already has fails with IntegrityError and leaves the
\* table as it was; a call whose name no row has adds exactly one row, which
\* holds the name, title, description and category it was given.
C24_CreateErrorUniqueName ==
    [][/\ \A a, b \in db'.error : a.name = b.name => a = b
       /\ \A p \in Procs : CreateErrorEnds(p) =>
             IF NameTaken(db.error, loc[p].name)
             THEN /\ loc'[p].outcome = "IntegrityError"
                  /\ db' = db
             ELSE /\ loc'[p].outcome = "ok"
                  /\ db.error \subseteq db'.error
                  /\ Cardinality(db'.error \ db.error) = 1
                  /\ db'.error \ db.error = loc'[p].ret
                  /\ RowsWithFields(loc'[p].ret, loc[p].fields) = loc'[p].ret]_vars

\* One create_error call has added its row and another one, made with a name
\* that a row has, has failed.
C24_Witness ==
    \E p, q \in Procs :
        /\ pc[p] = "done" /\ loc[p].op = "create_error" /\ loc[p].outcome = "ok"
        /\ loc[p].ret # {} /\ loc[p].ret \subseteq db.error
        /\ pc[q] = "done" /\ loc[q].op = "create_error"
        /\ loc[q].outcome = "IntegrityError"

\* C25: a create_error call with a category that is none of SYSTEM,
\* ALGORITHM, DATA fails with InvalidData and stores nothing: every stored
\* Error row has one of the three categories.
C25_CategoryValidated ==
    /\ \A e \in db.error : e.category \in Categories
    /\ \A p \in Procs :
           (loc[p].op = "create_error" /\ pc[p] \in {"ce_save", "ce_commit"}) =>
               \A f \in loc[p].fields : f[4] \in Categories

(***************************************************************************)
(* Properties of the error registry (SpecList).                            *)
(***************************************************************************)
\* C26: no operation of the registry deletes an Error row or changes the
\* name or the category of one: every row of the table is still there after
\* every step, with its name and category.
C26_ErrorsNeverDeletedOrRecategorised ==
    [][\A e \in db.error : \E f \in db'.error :
          f.id = e.id /\ f.name = e.name /\ f.category = e.category]_vars

\* A create_error has added a row to the registry, by a caller or as the
\* fallback, and a listing or a lookup has just been made.
C26_Witness ==
    /\ \E e \in db.error : e.id >= 4
    /\ \E p \in Procs :
           pc[p] = "done" /\ loc[p].op \in {"get_errors", "get_by_natural_key"}

\* Process p has made a get_errors call.
ListedErrors(p) == pc[p] = "done" /\ loc[p].op = "get_errors"

\* C27: get_errors(started, ended, order) returns, each once, exactly the
\* Error rows with started <= last_modified <= ended, each bound applied only
\* when it is given, ordered by the fields of order, or by ascending
\* last_modified when no order is given; it fails in no case, and returns the
\* empty list when no row is in the range.
C27_GetErrorsRangeAndOrder ==
    \A p \in Procs : ListedErrors(p) =>
        \A f \in loc[p].fields :
            LET started == f[1]
                ended == f[2]
                order == f[3]
                list == loc[p].list
            IN  /\ loc[p].outcome = "ok"
                /\ \A i, j \in DOMAIN list : i # j => list[i] # list[j]
                /\ Range(list) =
                       {e \in loc[p].seen :
                           /\ started = NoTime \/ started <= e.last_modified
                           /\ ended = NoTime \/ e.last_modified <= ended}
                /\ order = <<>> =>
                       \A i, j \in DOMAIN list :
                           i < j => list[i].last_modified <= list[j].last_modified
                /\ order # <<>> =>
                       \A i, j \in DOMAIN list : i < j => ~Before(list[j], list[i], order)

\* A listing from a given start time, in the default order, holds a row
\* last modified at that very time and a later one after it, and leaves out
\* an earlier row.
C27_Witness ==
    \E p \in Procs :
        /\ ListedErrors(p)
        /\ \E f \in loc[p].fields : f[1] # NoTime /\ f[2] = NoTime /\ f[3] = <<>>
        /\ Len(loc[p].list) = 2
        /\ \A f \in loc[p].fields : loc[p].list[1].last_modified = f[1]
        /\ loc[p].list[2].last_modified > loc[p].list[1].last_modified
        /\ Range(loc[p].list) # loc[p].seen

(***************************************************************************)
(* Properties of the reading operations (SpecReport).                      *)
(***************************************************************************)
ReadOps ==
    {"get_errors", "get_recipes", "get_recipe_types", "get_details",
     "get_recipe_type_details", "get_latest_revision"}

\* Process p takes a step of a read-only operation: of a listing or detail
\* call, or of get_recipe_jobs returning without having asked for a lock.
ReadStep(p) ==
    \/ /\ loc'[p].op \in ReadOps
       /\ pc'[p] # pc[p] \/ loc'[p] # loc[p]
    \/ /\ pc[p] = "txn" /\ pc'[p] \in {"txn", "rj_jobs"}
       /\ loc'[p].stmts = loc[p].stmts + 1
       /\ loc'[p].name = "get_recipe_jobs"
    \/ pc[p] = "rj_jobs" /\ pc'[p] # pc[p]

\* Process p can make each of the reads now.
ReadsEnabled(p) ==
    /\ (Free(p) /\ calls > 0) =>
          /\ ENABLED GetErrors(p, NoTime, NoTime, <<>>)
          /\ ENABLED GetRecipes(p, {}, {})
          /\ ENABLED GetRecipeTypes(p)
          /\ ENABLED GetDetails(p, 1)
          /\ ENABLED GetRecipeTypeDetails(p, 1)
          /\ ENABLED LatestRevision(p, 1)
    /\ pc[p] = "gd_jobs" => ENABLED GdJobs(p)
    /\ pc[p] = "rj_jobs" => ENABLED RjJobQuery(p)
    /\ (pc[p] = "txn" /\ loc[p].stmts < MaxStmts) =>
          ENABLED GetRecipeJobs(p, 1, TRUE, FALSE)

\* C28: the read-only operations (get_errors, get_recipes, get_recipe_types,
\* the two get_details, get_latest_revision, and get_recipe_jobs without
\* jobs_lock) take no row lock, ask for none and change no row, and each can
\* be made whatever row locks the other transactions hold.
C28_ReadsTakeNoLocks ==
    /\ [][\A p \in Procs :
             ReadStep(p) => /\ held' = held
                            /\ want' = want
                            /\ db' = db
                            /\ tx' = tx]_vars
    /\ [](\A p \in Procs : ReadsEnabled(p))

\* The scheduler's transaction holds the locks of both jobs of the recipe
\* and has transitioned one; a reader has read the recipe's details.
C28_Witness ==
    \E p, q \in Procs :
        /\ p # q
        /\ {Row("Job", 1), Row("Job", 2)} \subseteq held[p]
        /\ tx[p].job # {}
        /\ pc[q] = "done" /\ loc[q].op = "get_details" /\ loc[q].seen # {}

\* Process p has made a get_latest_revision call.
AskedLatestRevision(p) == pc[p] = "done" /\ loc[p].op = "get_latest_revision"

\* C29: get_latest_revision(recipe_type_id) returns the one revision of that
\* recipe type whose revision_num is the highest among the revisions of the
\* type, and None when the type has no revision.
C29_LatestRevisionOfType ==
    \A p \in Procs : AskedLatestRevision(p) =>
        LET revisions == {r \in db.recipe_type_revision : r.recipe_type = loc[p].arg}
        IN  /\ loc[p].outcome = "ok"
            /\ revisions = {} => loc[p].ret = {}
            /\ revisions # {} =>
                   /\ Cardinality(loc[p].ret) = 1
                   /\ loc[p].ret \subseteq revisions
                   /\ \A r \in loc[p].ret : \A o \in revisions :
                          o.revision_num <= r.revision_num

\* The call returned a revision of the type asked for which is not the
\* type's first, while a revision of another type has a higher id.
C29_Witness ==
    \E p \in Procs :
        /\ AskedLatestRevision(p)
        /\ \E r \in loc[p].ret :
              /\ r.revision_num >= 2
              /\ \E o \in db.recipe_type_revision :
                     o.recipe_type # r.recipe_type /\ o.id > r.id

(***************************************************************************)
(* Properties of the revisions of an edited recipe type (SpecRev).         *)
(***************************************************************************)
\* C30: revisions are immutable.  Every RecipeTypeRevision row stays as it
\* is, with its revision_num and definition, in every step; an open
\* transaction writes no row under the id of a stored revision; and a new
\* revision is a new row that holds the definition its recipe type has when
\* the revision is committed.
C30_RevisionsImmutable ==
    [][/\ \A r \in db.recipe_type_revision : r \in db'.recipe_type_revision
       /\ \A p \in Procs : \A w \in tx'[p].recipe_type_revision :
             \A r \in db.recipe_type_revision : r.id # w.id
       /\ \A n \in db'.recipe_type_revision \ db.recipe_type_revision :
             /\ \A r \in db.recipe_type_revision : r.id # n.id
             /\ \E t \in db'.recipe_type :
                    t.id = n.recipe_type /\ t.definition = n.definition]_vars

\* The recipe type has been edited to another definition: its revision 1
\* holds the first definition and its revision 2 the new one.
C30_Witness ==
    \E a, b \in db.recipe_type_revision :
        /\ a.recipe_type = b.recipe_type
        /\ a.revision_num = 1 /\ b.revision_num = 2
        /\ a.definition = DefA /\ b.definition = DefAB

(***************************************************************************)
(* Properties of validate_recipe_type (SpecValid).                         *)
(***************************************************************************)
\* Process p makes a validate_recipe_type call in this step.
ValidateStep(p) ==
    /\ Free(p)
    /\ calls' = calls - 1
    /\ loc'[p].op = "validate_recipe_type"
    /\ \A q \in Procs \ {p} : loc'[q] = loc[q] /\ pc'[q] = pc[q]

\* Process p has completed a call of the operation op that got as far as the
\* validation of its definition: it was rejected there, or it succeeded.
Validated(p, op) ==
    /\ pc[p] = "done"
    /\ loc[p].op = op
    /\ loc[p].outcome \in {"ok", "InvalidDefinition"}

\* C31: validate_recipe_type raises InvalidDefinition on exactly the
\* definitions on which create_recipe_type does and returns the warnings
\* otherwise, and it creates or changes no row, whether it succeeds or fails.
C31_ValidateRecipeTypeSideEffectFree ==
    [][/\ \A p \in Procs : ValidateStep(p) =>
             /\ db' = db /\ tx' = tx /\ seq' = seq
             /\ held' = held /\ want' = want
             /\ loc'[p].outcome \in {"ok", "InvalidDefinition"}
             /\ loc'[p].outcome = "ok" =>
                    \A d \in loc'[p].definition :
                        loc'[p].list = JobInterfaceWarnings(d)
       /\ \A p, q \in Procs :
             (/\ Validated(p, "validate_recipe_type")'
              /\ Validated(q, "create_recipe_type")'
              /\ loc'[p].definition = loc'[q].definition)
             => loc'[p].outcome = loc'[q].outcome]_vars

\* The same definition has been rejected by validate_recipe_type and by
\* create_recipe_type, and nothing is stored.
C31_Witness ==
    \E p, q \in Procs :
        /\ Validated(p, "validate_recipe_type")
        /\ Validated(q, "create_recipe_type")
        /\ loc[p].definition = {DefBad} /\ loc[q].definition = {DefBad}
        /\ loc[p].outcome = "InvalidDefinition"
        /\ db = NoRows

(***************************************************************************)
(* Properties of check_time_range (SpecRange).                             *)
(***************************************************************************)
\* C32: check_time_range(started, ended, max_duration) accepts a range when
\* a bound is absent, or when started is before ended and ended - started is
\* no longer than max_duration (when one is given); it raises BadParameter
\* when started equals ended, when started is after ended, and when
\* ended - started is longer than max_duration.
C32_CheckTimeRange ==
    \A p \in Procs : pc[p] = "done" =>
        \A f \in loc[p].fields :
            LET started == f[1]
                ended == f[2]
                max_duration == f[3]
                both == started # NoTime /\ ended # NoTime
                too_long == max_duration # NoDuration /\ ended - started > max_duration
            IN  /\ ~both => loc[p].outcome = "ok"
                /\ (both /\ started < ended /\ ~too_long) => loc[p].outcome = "ok"
                /\ (both /\ started = ended) => loc[p].outcome = "BadParameter"
                /\ (both /\ started > ended) => loc[p].outcome = "BadParameter"
                /\ (both /\ too_long) => loc[p].outcome = "BadParameter"

\* One range of no length has been rejected and one range as long as the
\* limit has been accepted.
C32_Witness ==
    \E p, q \in Procs :
        /\ pc[p] = "done" /\ pc[q] = "done"
        /\ \E f \in loc[p].fields : f[1] # NoTime /\ f[1] = f[2]
        /\ loc[p].outcome = "BadParameter"
        /\ \E f \in loc[q].fields : f[1] # NoTime /\ f[3] # NoDuration /\ f[2] - f[1] = f[3]
        /\ loc[q].outcome = "ok"

(***************************************************************************)
(* Properties of the self-healing lookup (SpecErr).                        *)
(***************************************************************************)
\* C33: a _get_system_error call for a name that is absent returns an error
\* named 'setup' of category SYSTEM, and the only row such a call writes is
\* one named 'setup': none under the name asked for.
C33_AbsentNameReturnsSetup ==
    \A p \in Procs :
        /\ SystemErrorMissed(p) =>
              /\ loc[p].ret # {}
              /\ \A e \in loc[p].ret : e.name = "setup" /\ e.category = "SYSTEM"
        /\ loc[p].op = "get_system_error" =>
              \A w \in tx[p].error : w.name = "setup" /\ w.name # loc[p].name

\* The committed rows named 'setup'.
SetupRows == {e \in db.error : e.name = "setup"}

\* C34: when processes call _get_system_error at the same time for names
\* that are absent, no call raises, at most one 'setup' row is ever
\* committed, and each call returns that 'setup' row or None.
C34_ConcurrentFallback ==
    /\ Cardinality(SetupRows) <= 1
    /\ \A p \in Procs :
           (pc[p] = "done" /\ loc[p].op = "get_system_error") =>
               loc[p].outcome = "ok"
    /\ \A p \in Procs :
           SystemErrorMissed(p) => (loc[p].ret = {} \/ loc[p].ret = SetupRows)

\* Two calls have both found their name absent: one has inserted 'setup' and
\* not committed yet, the other is about to insert it.
C34_Witness ==
    \E p, q \in Procs :
        /\ p # q
        /\ loc[p].op = "get_system_error" /\ pc[p] = "ce_commit"
        /\ \E w \in tx[p].error : w.name = "setup"
        /\ loc[q].op = "get_system_error" /\ pc[q] = "ce_save"

(***************************************************************************)
(* Properties of the nested create_error (SpecNest).                       *)
(***************************************************************************)
\* The fallback creation of process p's _get_system_error call fails in this
\* step.
FallbackFails(p) ==
    /\ pc[p] = "nce_save"
    /\ pc'[p] = "txn"
    /\ Len(loc'[p].log) = Len(loc[p].log) + 1

\* C35: when the creation of the fallback fails inside _get_system_error,
\* the rows the caller wrote earlier in its transaction and its locks are
\* kept, the transaction goes on, and what it has written is committed when
\* it commits.
C35_FailedFallbackKeepsCallerWrites ==
    [][\A p \in Procs :
          /\ FallbackFails(p) =>
                /\ loc[p].seen = {tx[p]}
                /\ tx'[p] = tx[p]
                /\ held'[p] = held[p]
                /\ db' = db
          /\ (pc[p] = "txn" /\ pc'[p] = "done") =>
                \A t \in Tables : tx[p][t] \subseteq db'[t]]_vars

\* A caller has transitioned a job, then its _get_system_error call missed
\* the name and failed to create the fallback; the job's change is still
\* among the writes of its open transaction.
C35_Witness ==
    \E p \in Procs :
        /\ pc[p] = "txn"
        /\ loc[p].name = "database" /\ loc[p].found = {} /\ loc[p].ret = {}
        /\ Len(loc[p].log) = 2
        /\ \E j \in tx[p].job : j.status = "RUNNING"

(***************************************************************************)
(* Properties of the binding of recipes to revisions (SpecBind).           *)
(***************************************************************************)
\* Process p's create_recipe call is about to bind the revision and its
\* recipe type has no revision at all.
BindsWithoutRevision(p) ==
    /\ pc[p] = "cr_bind"
    /\ \A rt \in loc[p].rt :
          ~\E rev \in Visible(p).recipe_type_revision : rev.recipe_type = rt.id

\* Every recipe row, committed or pending, names a stored revision.
RecipesHaveRevision ==
    \A r \in db.recipe \cup UNION {tx[p].recipe : p \in Procs} :
        \E q \in Procs : \E rev \in Visible(q).recipe_type_revision :
            rev.id = r.recipe_type_rev

\* C36: create_recipe on an active recipe type without any revision fails
\* and leaves no Recipe, Job or RecipeJob row, committed or pending; and no
\* Recipe row is without its revision.
C36_NoRevisionNoRecipe ==
    /\ []RecipesHaveRevision
    /\ [][\A p \in Procs :
             (BindsWithoutRevision(p) /\ pc'[p] # pc[p]) =>
                 /\ pc'[p] = "done"
                 /\ loc'[p].outcome \notin {"none", "ok"}
                 /\ tx'[p] = NoRows
                 /\ db' = db]_vars

\* A create_recipe call on the stored recipe type that has no revision
\* failed, and another on the unsaved recipe type is about to bind.
C36_Witness ==
    \E p, q \in Procs :
        /\ pc[p] = "done" /\ loc[p].op = "create_recipe"
        /\ loc[p].outcome = "AttributeError"
        /\ BindsWithoutRevision(q)
        /\ \E rt \in loc[q].rt : rt.id = NoId
        /\ db.recipe = {} /\ db.job = {} /\ db.recipe_job = {}

\* C37: every recipe row of create_recipe, committed or pending, has an
\* event and is bound to a stored revision of its own recipe type.
C37_RecipeEventAndOwnRevision ==
    \A r \in db.recipe \cup UNION {tx[p].recipe : p \in Procs} :
        /\ r.event # NoEvent
        /\ \E q \in Procs : \E rev \in Visible(q).recipe_type_revision :
              /\ rev.id = r.recipe_type_rev
              /\ rev.recipe_type = r.recipe_type

\* A recipe of recipe type 2 is committed, bound to the revision an edit
\* gave that type, while recipe type 1 has a revision of its own.
C37_Witness ==
    \E r \in db.recipe :
        /\ r.recipe_type = 2
        /\ \E rev \in db.recipe_type_revision :
              rev.id = r.recipe_type_rev /\ rev.recipe_type = 2
        /\ \E rev \in db.recipe_type_revision : rev.recipe_type = 1

(***************************************************************************)
(* Properties of unlocked revision creation (SpecUnlocked).                *)
(***************************************************************************)
\* The revision rows, committed or pending in an open transaction.
WrittenRevisions ==
    db.recipe_type_revision \cup UNION {tx[p].recipe_type_revision : p \in Procs}

\* Process p is about to insert a revision whose (recipe_type, revision_num)
\* a committed row already has.
InsertsTakenNumber(p) ==
    /\ pc[p] = "rev_insert"
    /\ \E r \in db.recipe_type_revision : \E rt \in loc[p].rt :
          r.recipe_type = rt.id /\ r.revision_num = loc[p].new_rev_num

\* C38: with or without the RecipeType lock, no two revision rows, committed
\* or pending, have the same (recipe_type, revision_num); an insert of a
\* number that a committed row has fails with IntegrityError and writes
\* nothing.
C38_NoDuplicateRevisionWithoutLock ==
    /\ [](\A a, b \in WrittenRevisions :
             (a.recipe_type = b.recipe_type /\ a.revision_num = b.revision_num) => a = b)
    /\ [][\A p \in Procs :
             (InsertsTakenNumber(p) /\ pc'[p] # pc[p]) =>
                 /\ pc'[p] = "done"
                 /\ loc'[p].outcome = "IntegrityError"
                 /\ tx'[p] = NoRows
                 /\ db' = db]_vars

\* Two callers without the lock computed the same number: one committed
\* revision 2 and the other failed with the uniqueness error.
C38_Witness ==
    \E p, q \in Procs :
        /\ p # q
        /\ pc[p] = "done" /\ loc[p].op = "create_recipe_type_revision"
        /\ loc[p].outcome = "ok"
        /\ pc[q] = "done" /\ loc[q].op = "create_recipe_type_revision"
        /\ loc[q].outcome = "IntegrityError"
        /\ Cardinality(db.recipe_type_revision) = 2

(***************************************************************************)
(* Properties of the result of get_recipe_jobs (SpecHold).                 *)
(***************************************************************************)
\* Process p's get_recipe_jobs call has returned and is its transaction's
\* latest statement.
RecipeJobsReturned(p) ==
    pc[p] = "txn" /\ loc[p].name = "get_recipe_jobs"

\* C39: whatever jobs_related and jobs_lock are, get_recipe_jobs returns the
\* RecipeJob rows of the recipe, each with the job it names; with jobs_lock
\* every returned job is the row as it is committed while the caller holds
\* its lock, whatever the RecipeJob query had read before.
C39_RecipeJobsCarryLockedState ==
    \A p \in Procs :
        RecipeJobsReturned(p) =>
            /\ loc[p].seen = {rj \in db.recipe_job : rj.recipe = loc[p].arg}
            /\ {j.id : j \in loc[p].ret} = {rj.job : rj \in loc[p].seen}
            /\ \A flags \in loc[p].fields :
                  flags[2] =>
                      /\ loc[p].ret \subseteq db.job
                      /\ \A j \in loc[p].ret : Row("Job", j.id) \in held[p]

\* A get_recipe_jobs call with jobs_lock has returned a job as RUNNING that
\* its RecipeJob query had read as PENDING: the change was committed between
\* the two reads.
C39_Witness ==
    \E p \in Procs :
        /\ RecipeJobsReturned(p)
        /\ \E flags \in loc[p].fields : flags[2]
        /\ \E j \in loc[p].ret : \E first \in loc[p].found :
              first.id = j.id /\ first.status = "PENDING" /\ j.status = "RUNNING"

====
